---- MODULE Spec2Model ----
(***************************************************************************)
(* Tool execution framework of go-source-insight: the ToolManager registry *)
(* (tools, configs, RWMutex) and ToolManager.Run with its validation,      *)
(* timeout and retry loop, together with the tools it dispatches to: the   *)
(* security scanner, the bug detector and the complexity analyzer over Go  *)
(* syntax trees.                                                           *)
(***************************************************************************)
EXTENDS Integers, Sequences, FiniteSets, TLC

VARIABLES
    tools,      \* ToolManager.tools   : name -> Tool   (NoTool when the key is absent)
    configs,    \* ToolManager.configs : name -> config (<<>> absent, <<c>> present)
    mu,         \* ToolManager.mu      : the RWMutex, its writer and its readers
    pc,         \* per caller: where the call it is executing stands
    call        \* per caller: the arguments, locals and return values of its call;
                \* validates and attempts count the calls of the tool's Validate and
                \* Run, toolErr is what the last attempt returned, elapsed the time
                \* since startTime

vars == <<tools, configs, mu, pc, call>>

-----------------------------------------------------------------------------
(* Bounds of the model *)

\* Largest positive timeout (ms) a config carries; an attempt lasts 1..MaxTimeout+1 ms.
MaxTimeout == 1
\* Largest MaxRetries a config carries.
MaxRetriesBound == 1

Procs == {"runner", "admin"}
Runner == "runner"
NoProc == "none"

-----------------------------------------------------------------------------
(* Errors: a chain of messages, outermost first (fmt.Errorf("..%w") wraps) *)

NoErr == << >>
ErrToolNotFound == <<"ErrToolNotFound">>
ErrToolDisabled == <<"ErrToolDisabled">>
ErrInvalidInput == <<"ErrInvalidInput">>
ErrToolTimeout == <<"ErrToolTimeout">>
DeadlineExceeded == <<"context.DeadlineExceeded">>

\* (mutant) compares with == instead of errors.Is: a wrapped error is not matched
ErrorsIsEq(err, target) == err = target

\* errors.Is(err, target): target is err or one of the errors err wraps
ErrorsIs(err, target) ==
    \E i \in 1..Len(err) : SubSeq(err, i, Len(err)) = target

\* err.Error(): the message of the error followed by those of the wrapped ones
RECURSIVE ErrorText(_)
ErrorText(err) ==
    IF err = NoErr THEN ""
    ELSE IF Len(err) = 1 THEN err[1]
    ELSE err[1] \o ": " \o ErrorText(Tail(err))

-----------------------------------------------------------------------------
(* Tools *)

NoTool == "nil"
\* two mock tools of the same name, a synchronous analyzer, a tool without a name
Tools == {"mock", "mock2", "scanner", "anon"}

ToolName(t) ==
    CASE t = "mock"    -> "test_tool"
      [] t = "mock2"   -> "test_tool"
      [] t = "scanner" -> "security_scanner"
      [] t = "detector" -> "bug_detector"
      [] t = "anon"    -> ""

Names == {"test_tool", "security_scanner"}

\* inputs of type any: nil, strings, a non-string
InNil == [type |-> "nil", val |-> ""]
InEmpty == [type |-> "string", val |-> ""]
InGood == [type |-> "string", val |-> "package a"]
InBad == [type |-> "string", val |-> "func {"]
InInt == [type |-> "int", val |-> "123"]
Inputs == {InNil, InEmpty, InGood, InBad, InInt}

\* every tool here embeds a BaseTool built with reflect.TypeOf("")
InputTypeOf(t) == "string"

\* (mutant) BaseTool.Validate without the empty-string check
ValidateNoEmptyCheck(t, input) ==
    IF input.type = "nil" THEN ErrInvalidInput
    ELSE IF input.type # InputTypeOf(t)
         THEN <<"input type error: want " \o InputTypeOf(t) \o ", got " \o input.type>>
    ELSE NoErr

\* BaseTool.Validate
Validate(t, input) ==
    IF input.type = "nil" THEN ErrInvalidInput
    ELSE IF input.type # InputTypeOf(t)
         THEN <<"input type error: want " \o InputTypeOf(t) \o ", got " \o input.type>>
    ELSE IF InputTypeOf(t) = "string" /\ input.val = "" THEN ErrInvalidInput
    ELSE NoErr

-----------------------------------------------------------------------------
(* Configs and results *)

Timeouts == 0..MaxTimeout
RetryVals == -1..MaxRetriesBound
Durations == 1..(MaxTimeout + 1)

ToolConfig(enabled, timeout, retries, custom) ==
    [Enabled |-> enabled, Timeout |-> timeout, MaxRetries |-> retries,
     CustomConfig |-> custom]

ZeroConfig == ToolConfig(FALSE, 0, 0, "")

DefaultTimeout == 30000
DefaultMaxRetries == 1
DefaultToolConfig == ToolConfig(TRUE, DefaultTimeout, DefaultMaxRetries, "{}")

Configs ==
    { ToolConfig(e, t, r, "{}") : e \in BOOLEAN, t \in Timeouts, r \in RetryVals }
        \cup {DefaultToolConfig, ToolConfig(TRUE, -1, 0, "{}")}

\* NewToolResult; a *ToolResult is <<>> (nil) or <<r>>
NewToolResult(success, result, errorMsg, executionTime) ==
    [Success |-> success, Result |-> result, Error |-> errorMsg,
     ExecutionTime |-> executionTime]

NilResult == << >>

-----------------------------------------------------------------------------
(* State *)

Registered(name) == tools[name] # NoTool

Idle ==
    [op |-> "", name |-> "", input |-> InNil, tool |-> NoTool, config |-> ZeroConfig,
     retry |-> 0, attempts |-> 0, validates |-> 0, elapsed |-> 0,
     result |-> "", execErr |-> NoErr, toolErr |-> NoErr,
     retTool |-> NoTool, retConfig |-> ZeroConfig, retResult |-> NilResult,
     retNames |-> << >>, retStatus |-> << >>,
     err |-> NoErr]

\* NewToolManager
Init ==
    /\ tools = [n \in Names |-> NoTool]
    /\ configs = [n \in Names |-> << >>]
    /\ mu = [writer |-> NoProc, readers |-> {}]
    /\ pc = [p \in Procs |-> "idle"]
    /\ call = [p \in Procs |-> Idle]

Ready(p) == pc[p] \in {"idle", "done"}

\* sync.RWMutex
Lock(p) == mu.writer = NoProc /\ mu.readers = {} /\ mu' = [mu EXCEPT !.writer = p]
Unlock(p) == mu.writer = p /\ mu' = [mu EXCEPT !.writer = NoProc]
RLock(p) == mu.writer = NoProc /\ mu' = [mu EXCEPT !.readers = @ \cup {p}]
RUnlock(p) == p \in mu.readers /\ mu' = [mu EXCEPT !.readers = @ \ {p}]

Enter(p, op) ==
    /\ Ready(p)
    /\ pc' = [pc EXCEPT ![p] = op]
    /\ call' = [call EXCEPT ![p] = Idle]
    /\ UNCHANGED <<tools, configs>>

Return(p, frame) ==
    /\ pc' = [pc EXCEPT ![p] = "done"]
    /\ call' = [call EXCEPT ![p] = frame]

-----------------------------------------------------------------------------
(* Register *)

\* tool == nil or tool.Name() == "": returns before taking the lock
RegisterInvalid(p, t, c) ==
    /\ Ready(p)
    /\ IF t = NoTool THEN TRUE ELSE ToolName(t) = ""
    /\ Return(p, [Idle EXCEPT !.op = "Register", !.tool = t, !.config = c,
                              !.err = ErrInvalidInput])
    /\ UNCHANGED <<tools, configs, mu>>

RegisterLock(p) == Enter(p, "Register") /\ Lock(p)

\* (mutant) Register without the exists check: a second tool overwrites the first
RegisterBodyOverwrite(p, t, c) ==
    /\ pc[p] = "Register"
    /\ IF t = NoTool THEN FALSE ELSE ToolName(t) # ""
    /\ tools' = [tools EXCEPT ![ToolName(t)] = t]
    /\ configs' = [configs EXCEPT ![ToolName(t)] = <<c>>]
    /\ Return(p, [Idle EXCEPT !.op = "Register", !.tool = t, !.config = c,
                              !.name = ToolName(t)])
    /\ Unlock(p)

RegisterBody(p, t, c) ==
    /\ pc[p] = "Register"
    /\ IF t = NoTool THEN FALSE ELSE ToolName(t) # ""
    /\ LET name == ToolName(t) IN
       IF Registered(name)
       THEN /\ UNCHANGED <<tools, configs>>
            /\ Return(p, [Idle EXCEPT !.op = "Register", !.tool = t, !.config = c,
                                      !.name = name,
                                      !.err = <<"tool " \o name \o " already registered">>])
       ELSE /\ tools' = [tools EXCEPT ![name] = t]
            /\ configs' = [configs EXCEPT ![name] = <<c>>]
            /\ Return(p, [Idle EXCEPT !.op = "Register", !.tool = t, !.config = c,
                                      !.name = name])
    /\ Unlock(p)

-----------------------------------------------------------------------------
(* Get *)

\* (mutant) Get without the Enabled check
GetResultIgnoreEnabled(name) ==
    IF tools[name] = NoTool
    THEN [tool |-> NoTool, config |-> ZeroConfig, err |-> ErrToolNotFound]
    ELSE [tool |-> tools[name], config |-> configs[name][1], err |-> NoErr]

\* the three results of Get for the registry it reads
GetResult(name) ==
    IF ~Registered(name)
    THEN [tool |-> NoTool, config |-> ZeroConfig, err |-> ErrToolNotFound]
    ELSE LET config == configs[name][1] IN
         IF ~config.Enabled
         THEN [tool |-> NoTool, config |-> ZeroConfig, err |-> ErrToolDisabled]
         ELSE [tool |-> tools[name], config |-> config, err |-> NoErr]

GetLock(p) == Enter(p, "Get") /\ RLock(p)

GetBody(p, name) ==
    /\ pc[p] = "Get"
    /\ LET g == GetResult(name) IN
       Return(p, [Idle EXCEPT !.op = "Get", !.name = name, !.retTool = g.tool,
                              !.retConfig = g.config, !.err = g.err])
    /\ RUnlock(p)
    /\ UNCHANGED <<tools, configs>>

-----------------------------------------------------------------------------
(* List, ListWithStatus *)

\* tool.Description()
Description(t) ==
    IF t = "scanner" THEN "security scanner" ELSE "Mock tool for testing"

\* the orders in which "for name := range tm.tools" can visit the keys
RangeOrders ==
    LET keys == { n \in Names : tools[n] # NoTool }
    IN  { order \in [1..Cardinality(keys) -> keys] :
            \A i, j \in 1..Cardinality(keys) : order[i] = order[j] => i = j }

ListLock(p) == Enter(p, "List") /\ RLock(p)

\* (mutant) List that leaves the disabled tools out
ListBodyEnabledOnly(p, order) ==
    /\ pc[p] = "List"
    /\ order \in RangeOrders
    /\ Return(p, [Idle EXCEPT !.op = "List",
                  !.retNames = SelectSeq(order, LAMBDA n : configs[n][1].Enabled)])
    /\ RUnlock(p)
    /\ UNCHANGED <<tools, configs>>

ListBody(p, order) ==
    /\ pc[p] = "List"
    /\ order \in RangeOrders
    /\ Return(p, [Idle EXCEPT !.op = "List", !.retNames = order])
    /\ RUnlock(p)
    /\ UNCHANGED <<tools, configs>>

ListWithStatusLock(p) == Enter(p, "ListWithStatus") /\ RLock(p)

ToolStatus(name) ==
    [Name |-> name, Description |-> Description(tools[name]),
     Enabled |-> configs[name][1].Enabled, Timeout |-> configs[name][1].Timeout]

ListWithStatusBody(p, order) ==
    /\ pc[p] = "ListWithStatus"
    /\ order \in RangeOrders
    /\ Return(p, [Idle EXCEPT !.op = "ListWithStatus",
                  !.retStatus = [i \in 1..Len(order) |-> ToolStatus(order[i])]])
    /\ RUnlock(p)
    /\ UNCHANGED <<tools, configs>>

-----------------------------------------------------------------------------
(* Enable, Disable, UpdateConfig *)

EnableLock(p) == Enter(p, "Enable") /\ Lock(p)

\* (mutant) Enable that stores a fresh config instead of the stored one
EnableBodyResets(p, name) ==
    /\ pc[p] = "Enable"
    /\ IF tools[name] = NoTool
       THEN /\ UNCHANGED configs
            /\ Return(p, [Idle EXCEPT !.op = "Enable", !.name = name,
                                      !.err = ErrToolNotFound])
       ELSE /\ configs' = [configs EXCEPT ![name] = <<[ZeroConfig EXCEPT !.Enabled = TRUE]>>]
            /\ Return(p, [Idle EXCEPT !.op = "Enable", !.name = name])
    /\ Unlock(p)
    /\ UNCHANGED tools

EnableBody(p, name) ==
    /\ pc[p] = "Enable"
    /\ IF ~Registered(name)
       THEN /\ UNCHANGED configs
            /\ Return(p, [Idle EXCEPT !.op = "Enable", !.name = name,
                                      !.err = ErrToolNotFound])
       ELSE /\ configs' = [configs EXCEPT ![name] = <<[@[1] EXCEPT !.Enabled = TRUE]>>]
            /\ Return(p, [Idle EXCEPT !.op = "Enable", !.name = name])
    /\ Unlock(p)
    /\ UNCHANGED tools

DisableLock(p) == Enter(p, "Disable") /\ Lock(p)

\* (mutant) Disable that sets config.Enabled = true, as Enable does
DisableBodyEnables(p, name) ==
    /\ pc[p] = "Disable"
    /\ IF tools[name] = NoTool
       THEN /\ UNCHANGED configs
            /\ Return(p, [Idle EXCEPT !.op = "Disable", !.name = name,
                                      !.err = ErrToolNotFound])
       ELSE /\ configs' = [configs EXCEPT ![name] = <<[@[1] EXCEPT !.Enabled = TRUE]>>]
            /\ Return(p, [Idle EXCEPT !.op = "Disable", !.name = name])
    /\ Unlock(p)
    /\ UNCHANGED tools

DisableBody(p, name) ==
    /\ pc[p] = "Disable"
    /\ IF ~Registered(name)
       THEN /\ UNCHANGED configs
            /\ Return(p, [Idle EXCEPT !.op = "Disable", !.name = name,
                                      !.err = ErrToolNotFound])
       ELSE /\ configs' = [configs EXCEPT ![name] = <<[@[1] EXCEPT !.Enabled = FALSE]>>]
            /\ Return(p, [Idle EXCEPT !.op = "Disable", !.name = name])
    /\ Unlock(p)
    /\ UNCHANGED tools

UpdateConfigLock(p) == Enter(p, "UpdateConfig") /\ Lock(p)

\* (mutant) UpdateConfig without the exists check: it stores a config for a
\* name that has no tool
UpdateConfigBodyNoCheck(p, name, c) ==
    /\ pc[p] = "UpdateConfig"
    /\ configs' = [configs EXCEPT ![name] = <<c>>]
    /\ Return(p, [Idle EXCEPT !.op = "UpdateConfig", !.name = name, !.config = c])
    /\ Unlock(p)
    /\ UNCHANGED tools

UpdateConfigBody(p, name, c) ==
    /\ pc[p] = "UpdateConfig"
    /\ IF ~Registered(name)
       THEN /\ UNCHANGED configs
            /\ Return(p, [Idle EXCEPT !.op = "UpdateConfig", !.name = name,
                                      !.config = c, !.err = ErrToolNotFound])
       ELSE /\ configs' = [configs EXCEPT ![name] = <<c>>]
            /\ Return(p, [Idle EXCEPT !.op = "UpdateConfig", !.name = name,
                                      !.config = c])
    /\ Unlock(p)
    /\ UNCHANGED tools

-----------------------------------------------------------------------------
(* The tools' Run *)

ParseError == <<"parse Go code failed", "syntax error">>
ToolError == <<"tool execution error">>
WrappedDeadline == <<"query failed", "context.DeadlineExceeded">>

\* What tool.Run(runCtx, input) can return, as [result, err].  The analyzers are
\* synchronous and decided by their input; a MockTool runs any runFunc.
ToolRun(t, input) ==
    IF t = "scanner"
    THEN IF input.type # "string"
         THEN {[result |-> "", err |-> <<"input type error">>]}
         ELSE IF input = InBad
         THEN {[result |-> "", err |-> ParseError]}
         ELSE {[result |-> "{json}", err |-> NoErr]}
    ELSE IF t = "detector"
    THEN IF input.type \notin {"string", "BugDetectorInput"}
         THEN {[result |-> "", err |-> <<"input type error">>]}
         ELSE {[result |-> "{json}", err |-> NoErr]}
    ELSE {[result |-> "mock result", err |-> NoErr],
          [result |-> "", err |-> ToolError],
          [result |-> "", err |-> DeadlineExceeded],
          [result |-> "", err |-> WrappedDeadline]}

-----------------------------------------------------------------------------
(* ToolManager.Run *)

RunLock(p) == Enter(p, "RunGet") /\ RLock(p)

\* (mutant) the Get inside Run without its deferred RUnlock
RunGetKeepsLock(p, name, input) ==
    /\ pc[p] = "RunGet"
    /\ LET g == GetResult(name) IN
       IF g.err # NoErr
       THEN Return(p, [Idle EXCEPT !.op = "Run", !.name = name, !.input = input,
                                   !.retResult = NilResult, !.err = g.err])
       ELSE /\ pc' = [pc EXCEPT ![p] = "validate"]
            /\ call' = [call EXCEPT ![p] =
                   [Idle EXCEPT !.op = "Run", !.name = name, !.input = input,
                                !.tool = g.tool, !.config = g.config]]
    /\ UNCHANGED <<tools, configs, mu>>

\* 1. tool, config, err := tm.Get(toolName)
RunGet(p, name, input) ==
    /\ pc[p] = "RunGet"
    /\ LET g == GetResult(name) IN
       IF g.err # NoErr
       THEN Return(p, [Idle EXCEPT !.op = "Run", !.name = name, !.input = input,
                                   !.retResult = NilResult, !.err = g.err])
       ELSE /\ pc' = [pc EXCEPT ![p] = "validate"]
            /\ call' = [call EXCEPT ![p] =
                   [Idle EXCEPT !.op = "Run", !.name = name, !.input = input,
                                !.tool = g.tool, !.config = g.config]]
    /\ RUnlock(p)
    /\ UNCHANGED <<tools, configs>>

\* 5. the ToolResult built from the loop's result and execErr
BuildResult(f) ==
    NewToolResult(f.execErr = NoErr, f.result,
                  IF f.execErr # NoErr THEN ErrorText(f.execErr) ELSE "",
                  f.elapsed)

\* (mutant) Run that returns the execution error itself instead of a result
FinishReturnsErr(p, f) ==
    Return(p, [f EXCEPT !.retResult = IF f.execErr = NoErr THEN <<BuildResult(f)>>
                                      ELSE NilResult,
                        !.err = f.execErr])

Finish(p, f) == Return(p, [f EXCEPT !.retResult = <<BuildResult(f)>>, !.err = NoErr])

\* 2. tool.Validate(input); 3. the context with the timeout; startTime
RunValidate(p) ==
    /\ pc[p] = "validate"
    /\ LET f == [call[p] EXCEPT !.validates = @ + 1]
           err == Validate(f.tool, f.input) IN
       IF err # NoErr
       THEN Return(p, [f EXCEPT
                !.retResult = <<NewToolResult(FALSE, "",
                                   "input validation failed: " \o ErrorText(err), 0)>>,
                !.err = NoErr])
       ELSE /\ pc' = [pc EXCEPT ![p] = "loop"]
            /\ call' = [call EXCEPT ![p] = f]
    /\ UNCHANGED <<tools, configs, mu>>

\* (mutant) the loop with retry < config.MaxRetries
RunLoopOffByOne(p) ==
    /\ pc[p] = "loop"
    /\ LET f == call[p] IN
       IF f.retry < f.config.MaxRetries
       THEN /\ pc' = [pc EXCEPT ![p] = "intool"]
            /\ call' = [call EXCEPT ![p].attempts = @ + 1]
       ELSE Finish(p, f)
    /\ UNCHANGED <<tools, configs, mu>>

\* (mutant) the loop reads MaxRetries from tm.configs instead of its own copy
RunLoopRereadsConfig(p) ==
    /\ pc[p] = "loop"
    /\ LET f == call[p] IN
       IF f.retry <= configs[f.name][1].MaxRetries
       THEN /\ pc' = [pc EXCEPT ![p] = "intool"]
            /\ call' = [call EXCEPT ![p].attempts = @ + 1]
       ELSE Finish(p, f)
    /\ UNCHANGED <<tools, configs, mu>>

RunLoop(p) ==
    /\ pc[p] = "loop"
    /\ LET f == call[p] IN
       IF f.retry <= f.config.MaxRetries
       THEN /\ pc' = [pc EXCEPT ![p] = "intool"]
            /\ call' = [call EXCEPT ![p].attempts = @ + 1]
       ELSE Finish(p, f)
    /\ UNCHANGED <<tools, configs, mu>>

\* tool.Run returns after dur ms; break on success or deadline, else retry++
RunAttempt(p, out, dur) ==
    /\ pc[p] = "intool"
    /\ out \in ToolRun(call[p].tool, call[p].input)
    /\ LET f == [call[p] EXCEPT !.result = out.result, !.execErr = out.err,
                                !.toolErr = out.err, !.elapsed = @ + dur] IN
       IF f.execErr = NoErr
       THEN Finish(p, f)
       ELSE IF ErrorsIs(f.execErr, DeadlineExceeded)
       THEN Finish(p, [f EXCEPT !.execErr = ErrToolTimeout])
       ELSE /\ pc' = [pc EXCEPT ![p] = "loop"]
            /\ call' = [call EXCEPT ![p] = [f EXCEPT !.retry = @ + 1]]
    /\ UNCHANGED <<tools, configs, mu>>

Outcomes == UNION { ToolRun(t, i) : t \in Tools, i \in Inputs }

\* the value of a panic raised inside tool.Run (a nil dereference, a failed
\* type assertion)
PanicValue == <<"panic: runtime error">>

\* tools whose Run can panic: a MockTool runs any runFunc
CanPanic(t) == t \in {"mock", "mock2"}

\* tool.Run panics: Run has no recover, so its frame is unwound (the deferred
\* cancel runs, it holds no lock) and the panic reaches the caller of Run
RunAttemptPanics(p) ==
    /\ pc[p] = "intool"
    /\ CanPanic(call[p].tool)
    /\ pc' = [pc EXCEPT ![p] = "panicked"]
    /\ call' = [call EXCEPT ![p].toolErr = PanicValue]
    /\ UNCHANGED <<tools, configs, mu>>

-----------------------------------------------------------------------------
(* Specification *)

\* one caller: every operation runs from its call to its return
Next ==
    \/ \E t \in Tools \cup {NoTool} : RegisterInvalid(Runner, t, DefaultToolConfig)
    \/ RegisterLock(Runner)
    \/ \E t \in Tools, c \in Configs : RegisterBody(Runner, t, c)
    \/ GetLock(Runner)
    \/ \E n \in Names : GetBody(Runner, n)
    \/ EnableLock(Runner)
    \/ \E n \in Names : EnableBody(Runner, n)
    \/ DisableLock(Runner)
    \/ \E n \in Names : DisableBody(Runner, n)
    \/ UpdateConfigLock(Runner)
    \/ \E n \in Names, c \in Configs : UpdateConfigBody(Runner, n, c)
    \/ RunLock(Runner)
    \/ \E n \in Names, i \in Inputs : RunGet(Runner, n, i)
    \/ RunValidate(Runner)
    \/ RunLoop(Runner)
    \/ \E out \in Outcomes, d \in Durations : RunAttempt(Runner, out, d)
    \/ RunAttemptPanics(Runner)

Spec == Init /\ [][Next]_vars

\* two goroutines on one ToolManager: one calls Run and Get while the other
\* registers, enables, disables and reconfigures
Admin == "admin"

ConcConfigs ==
    {DefaultToolConfig, ToolConfig(FALSE, 0, 0, "{}"), ToolConfig(TRUE, MaxTimeout, 0, "{}")}

ConcInputs == {InGood, InBad, InEmpty}

ConcNext ==
    \/ RegisterLock(Admin)
    \/ \E t \in {"mock", "scanner"}, c \in ConcConfigs : RegisterBody(Admin, t, c)
    \/ EnableLock(Admin)
    \/ \E n \in Names : EnableBody(Admin, n)
    \/ DisableLock(Admin)
    \/ \E n \in Names : DisableBody(Admin, n)
    \/ UpdateConfigLock(Admin)
    \/ \E n \in Names, c \in ConcConfigs : UpdateConfigBody(Admin, n, c)
    \/ GetLock(Runner)
    \/ \E n \in Names : GetBody(Runner, n)
    \/ RunLock(Runner)
    \/ \E n \in Names, i \in ConcInputs : RunGet(Runner, n, i)
    \/ RunValidate(Runner)
    \/ RunLoop(Runner)
    \/ \E out \in Outcomes, d \in Durations : RunAttempt(Runner, out, d)

SpecConc == Init /\ [][ConcNext]_vars

\* the registry operations alone, over configs that differ in every field
FrameConfigs ==
    { ToolConfig(e, t, r, cu) : e \in BOOLEAN, t \in {0, MaxTimeout},
                                r \in {0, MaxRetriesBound}, cu \in {"{}", "{k:v}"} }
        \cup {DefaultToolConfig}

FrameNext ==
    \/ RegisterLock(Runner)
    \/ \E t \in {"mock", "mock2", "scanner"}, c \in FrameConfigs : RegisterBody(Runner, t, c)
    \/ GetLock(Runner)
    \/ \E n \in Names : GetBody(Runner, n)
    \/ EnableLock(Runner)
    \/ \E n \in Names : EnableBody(Runner, n)
    \/ DisableLock(Runner)
    \/ \E n \in Names : DisableBody(Runner, n)
    \/ UpdateConfigLock(Runner)
    \/ \E n \in Names, c \in FrameConfigs : UpdateConfigBody(Runner, n, c)

SpecFrame == Init /\ [][FrameNext]_vars

\* two callers, each free to call every operation of the manager
LockConfigs == {DefaultToolConfig, ToolConfig(FALSE, MaxTimeout, 0, "{}")}

Orders == UNION { [1..k -> Names] : k \in 0..Cardinality(Names) }

LockNext ==
    \/ \E p \in Procs : RegisterLock(p)
    \/ \E p \in Procs, t \in {"mock", "scanner"}, c \in LockConfigs : RegisterBody(p, t, c)
    \/ \E p \in Procs : GetLock(p)
    \/ \E p \in Procs, n \in Names : GetBody(p, n)
    \/ \E p \in Procs : ListLock(p)
    \/ \E p \in Procs, o \in Orders : ListBody(p, o)
    \/ \E p \in Procs : ListWithStatusLock(p)
    \/ \E p \in Procs, o \in Orders : ListWithStatusBody(p, o)
    \/ \E p \in Procs : EnableLock(p)
    \/ \E p \in Procs, n \in Names : EnableBody(p, n)
    \/ \E p \in Procs : DisableLock(p)
    \/ \E p \in Procs, n \in Names : DisableBody(p, n)
    \/ \E p \in Procs : UpdateConfigLock(p)
    \/ \E p \in Procs, n \in Names, c \in LockConfigs : UpdateConfigBody(p, n, c)
    \/ \E p \in Procs : RunLock(p)
    \/ \E p \in Procs, n \in Names, i \in {InGood, InInt} : RunGet(p, n, i)
    \/ \E p \in Procs : RunValidate(p)
    \/ \E p \in Procs : RunLoop(p)
    \/ \E p \in Procs, out \in Outcomes : RunAttempt(p, out, MaxTimeout)

SpecLock == Init /\ [][LockNext]_vars

-----------------------------------------------------------------------------
(* Inputs of the analyzers: Go syntax trees (go/ast) with their layout *)

\* statements in a block of a source the analyzers are given
MaxStmts == 2
\* case clauses in a switch of a source
MaxClauses == 2
\* function declarations in a file, clauses per switch, of a source whose
\* complexity is analyzed
MaxFuncs == 2
MaxCases == 3

BoundedSeq(S, n) == UNION { [1..k -> S] : k \in 0..n }

\* a node: its go/ast type, its name (identifier, literal value, operator, or
\* "default"/"case" for a clause), whether it is written on a new line, and
\* its children in the order ast.Inspect visits them
Node(type, name, kids) == [type |-> type, name |-> name, nl |-> FALSE, kids |-> kids]
OnNewLine(n) == [n EXCEPT !.nl = TRUE]

Ident(name) == Node("Ident", name, << >>)
BasicLit(value) == Node("BasicLit", value, << >>)
SelectorExpr(x, sel) == Node("SelectorExpr", sel, <<x, Ident(sel)>>)
CallExpr(fun, args) == Node("CallExpr", "", <<fun>> \o args)
BinaryExpr(x, op, y) == Node("BinaryExpr", op, <<x, y>>)
UnaryExpr(op, x) == Node("UnaryExpr", op, <<x>>)
TypeAssertExpr(x) == Node("TypeAssertExpr", "", <<x>>)
AssignStmt(lhs, rhs) == Node("AssignStmt", "", <<lhs, rhs>>)
ExprStmt(x) == Node("ExprStmt", "", <<x>>)
BlockStmt(list) == Node("BlockStmt", "", list)
IfStmt(cond, body) == Node("IfStmt", "", <<cond, BlockStmt(body)>>)
ForStmt(body) == Node("ForStmt", "", <<BlockStmt(body)>>)
RangeStmt(x, body) == Node("RangeStmt", "", <<x, BlockStmt(body)>>)
\* CaseClause.List == nil is the default clause
CaseClause(list, body) ==
    Node("CaseClause", IF list = << >> THEN "default" ELSE "case", list \o body)
SwitchStmt(tag, clauses) == Node("SwitchStmt", "", <<tag, BlockStmt(clauses)>>)
TypeSwitchStmt(x, clauses) ==
    Node("TypeSwitchStmt", "", <<ExprStmt(TypeAssertExpr(x)), BlockStmt(clauses)>>)
\* CommClause.Comm == nil is the default clause
CommClause(comm, body) ==
    Node("CommClause", IF comm = << >> THEN "default" ELSE "case", comm \o body)
SelectStmt(clauses) == Node("SelectStmt", "", <<BlockStmt(clauses)>>)
FuncDecl(name, body) == Node("FuncDecl", name, <<Ident(name), BlockStmt(body)>>)
File(decls) == Node("File", "main", <<Ident("main")>> \o decls)

\* token.STRING literals among the literals of the sources
StringLits == {"\"f\"", "\"admin123\"", "\"SELECT * FROM t WHERE id=\"", "\"http://a\""}
IsStringLit(n) == n.type = "BasicLit" /\ n.name \in StringLits

\* node types whose Pos() is a token of their own; the Pos() of every other
\* type is the Pos() of its first child
OwnToken ==
    {"Ident", "BasicLit", "UnaryExpr", "BlockStmt", "IfStmt", "ForStmt", "RangeStmt",
     "CaseClause", "SwitchStmt", "TypeSwitchStmt", "CommClause", "SelectStmt",
     "FuncDecl", "File"}

\* bytes and line breaks of the text of a node, as far as positions need them:
\* a byte for the line break before it, one for its own token, and after each
\* child one for the token that follows it
RECURSIVE Span(_)
RECURSIVE SpanOf(_, _)
Span(n) ==
    (IF n.nl THEN 1 ELSE 0) + (IF n.type \in OwnToken THEN 1 ELSE 0) + SpanOf(n.kids, 1)
SpanOf(kids, k) ==
    IF k > Len(kids) THEN 0 ELSE Span(kids[k]) + 1 + SpanOf(kids, k + 1)

RECURSIVE LineBreaks(_)
RECURSIVE LineBreaksOf(_, _)
LineBreaks(n) == (IF n.nl THEN 1 ELSE 0) + LineBreaksOf(n.kids, 1)
LineBreaksOf(kids, k) ==
    IF k > Len(kids) THEN 0 ELSE LineBreaks(kids[k]) + LineBreaksOf(kids, k + 1)

\* ast.Inspect(node, f) with f returning true: every node in depth-first order,
\* with the byte offset and the line the FileSet gives for its Pos()
RECURSIVE Inspect(_, _, _)
RECURSIVE InspectKids(_, _, _, _)
Inspect(n, offset, line) ==
    LET o == IF n.nl THEN offset + 1 ELSE offset
        l == IF n.nl THEN line + 1 ELSE line
    IN  <<[node |-> n, Offset |-> o, Line |-> l]>>
            \o InspectKids(n.kids, 1, IF n.type \in OwnToken THEN o + 1 ELSE o, l)
InspectKids(kids, k, offset, line) ==
    IF k > Len(kids) THEN << >>
    ELSE Inspect(kids[k], offset, line)
            \o InspectKids(kids, k + 1, offset + Span(kids[k]) + 1,
                           line + LineBreaks(kids[k]))

Visited(root) == Inspect(root, 0, 1)

\* a source text: what parser.ParseFile makes of it, and the number of bytes
\* each of its lines has after its indentation
Source(file) == [valid |-> TRUE, file |-> file, width |-> 12]
BadSource == [valid |-> FALSE, file |-> File(<< >>), width |-> 12]
Code(src) == [type |-> "string", val |-> src]

SyntaxError == <<"syntax error">>
ParseFile(src) ==
    IF src.valid THEN [node |-> src.file, err |-> NoErr]
    ELSE [node |-> File(<< >>), err |-> SyntaxError]

\* the bytes of a code snippet that are kept
SnippetCap == 100
Ellipsis == <<".", ".", ".">>

\* strings.Split(code, "\n"): the lines of the text, each a tab and its bytes
Lines(code) ==
    [l \in 1..(1 + LineBreaks(code.file)) |-> <<"\t">> \o [i \in 1..code.width |-> "x"]]

\* strings.TrimSpace
IsSpace(c) == c \in {" ", "\t"}
RECURSIVE TrimLeft(_)
TrimLeft(s) == IF s # << >> /\ IsSpace(Head(s)) THEN TrimLeft(Tail(s)) ELSE s
RECURSIVE TrimRight(_)
TrimRight(s) ==
    IF s # << >> /\ IsSpace(s[Len(s)]) THEN TrimRight(SubSeq(s, 1, Len(s) - 1)) ELSE s
TrimSpace(s) == TrimRight(TrimLeft(s))

\* (mutant) the snippet is the whole trimmed line
codeSnippetWholeLine(code, line) ==
    LET lines == Lines(code) IN
    IF line - 1 < Len(lines) /\ line - 1 >= 0 THEN TrimSpace(lines[line]) ELSE << >>

\* the code snippet of buildSecurityIssue and buildBugIssue
codeSnippet(code, line) ==
    LET lines == Lines(code) IN
    IF line - 1 < Len(lines) /\ line - 1 >= 0
    THEN LET trimmed == TrimSpace(lines[line]) IN
         IF Len(trimmed) > SnippetCap
         THEN SubSeq(trimmed, 1, SnippetCap) \o Ellipsis
         ELSE trimmed
    ELSE << >>

\* the search of buildSecurityIssue and buildBugIssue for the function the
\* node is in: ast.Inspect(node, ...) visits the node and what is below it,
\* and takes the name of a FuncDecl that starts before the node and ends after
funcName(v) ==
    LET below == Inspect([v.node EXCEPT !.nl = FALSE], v.Offset, v.Line)
        hits == SelectSeq(below, LAMBDA n : /\ n.node.type = "FuncDecl"
                                            /\ n.Offset < v.Offset
                                            /\ v.Offset < n.Offset + Span(n.node))
    IN  IF hits = << >> THEN "" ELSE hits[Len(hits)].node.name

\* expressions and statements of the sources
PkgCall(pkg, fun, args) == CallExpr(SelectorExpr(Ident(pkg), fun), args)
OsOpen == PkgCall("os", "Open", <<BasicLit("\"f\"")>>)
RandIntn == PkgCall("rand", "Intn", <<BasicLit("5")>>)
SqlText == BasicLit("\"SELECT * FROM t WHERE id=\"")

CallStmts ==
    { AssignStmt(Ident("_"), OsOpen),
      ExprStmt(PkgCall("f", "Close", << >>)),
      ExprStmt(PkgCall("os", "OpenFile", <<BasicLit("\"f\""), Ident("x"), BasicLit("0777")>>)),
      ExprStmt(Ident("x")) }

SecretStmts ==
    { AssignStmt(Ident("password"), BasicLit("\"admin123\"")),
      AssignStmt(Ident("q"), BinaryExpr(SqlText, "+", Ident("x"))),
      AssignStmt(Ident("q"), BinaryExpr(RandIntn, "+", SqlText)),
      ExprStmt(PkgCall("fmt", "Println", <<Ident("password")>>)),
      ExprStmt(PkgCall("http", "Get", <<BasicLit("\"http://a\"")>>)),
      ExprStmt(PkgCall("md5", "Sum", <<Ident("x")>>)) }

Layouts(S) == S \cup { OnNewLine(s) : s \in S }

\* switch statements, one level of nesting
Clauses(bodies) ==
    { CaseClause(l, b) : l \in {<< >>, <<BasicLit("5")>>}, b \in bodies }
InnerSwitches ==
    Layouts({ SwitchStmt(Ident("y"), cs) : cs \in [1..1 -> Clauses({<< >>})] })
Switches ==
    { SwitchStmt(Ident("x"), cs) :
        cs \in BoundedSeq(Clauses({<< >>} \cup { <<s>> : s \in InnerSwitches }), MaxClauses) }

OneFunc(body) == Source(File(<<OnNewLine(FuncDecl("f", body))>>))

\* sources with long lines
LongWidths == {SnippetCap - 1, SnippetCap, SnippetCap + 1, SnippetCap + 20}
LongSources ==
    { [OneFunc(<<OnNewLine(s)>>) EXCEPT !.width = w] :
        w \in LongWidths,
        s \in {AssignStmt(Ident("_"), OsOpen),
                AssignStmt(Ident("password"), BasicLit("\"admin123\""))} }

ScannerSources ==
    { OneFunc(b) : b \in BoundedSeq(Layouts(CallStmts \cup SecretStmts), MaxStmts) }
        \cup LongSources \cup {BadSource}
\* bodies of call statements, and bodies of a switch and at most one call statement
BugSources ==
    { OneFunc(b) : b \in BoundedSeq(Layouts(CallStmts), MaxStmts) }
        \cup { OneFunc(<<OnNewLine(s)>> \o b) :
                   s \in Switches, b \in BoundedSeq(Layouts(CallStmts), 1) }
        \cup LongSources \cup {BadSource}

\* sources for the complexity analyzer
Conds ==
    { Ident("x"),
      BinaryExpr(Ident("x"), "&&", Ident("y")),
      BinaryExpr(Ident("x"), "||", Ident("y")),
      BinaryExpr(Ident("x"), "==", Ident("y")),
      BinaryExpr(BinaryExpr(Ident("x"), "&&", Ident("y")), "||", Ident("z")) }
Recv == ExprStmt(UnaryExpr("<-", Ident("ch")))
BranchStmts ==
    { IfStmt(c, << >>) : c \in Conds }
 \cup { ForStmt(<< >>), RangeStmt(Ident("x"), << >>),
        ForStmt(<<IfStmt(BinaryExpr(Ident("x"), "&&", Ident("y")), << >>)>>) }
 \cup { SwitchStmt(Ident("x"), cs) :
            cs \in BoundedSeq(Clauses({<< >>}), MaxCases) }
 \cup { TypeSwitchStmt(Ident("x"), cs) : cs \in BoundedSeq(Clauses({<< >>}), 1) }
 \cup { SelectStmt(cs) :
            cs \in BoundedSeq({CommClause(<<Recv>>, << >>), CommClause(<< >>, << >>)}, 1) }
 \cup { ExprStmt(Ident("x")) }

FuncBodies == BoundedSeq({ OnNewLine(s) : s \in BranchStmts }, 1)
FuncNames == <<"f", "g", "h", "k">>
\* the functions after the first of a file
MoreBodies ==
    { << >>,
      <<OnNewLine(IfStmt(BinaryExpr(Ident("x"), "&&", Ident("y")), << >>))>>,
      <<OnNewLine(ExprStmt(Ident("x"))), OnNewLine(ForStmt(<< >>))>> }
Funcs(bs) == [i \in 1..Len(bs) |-> OnNewLine(FuncDecl(FuncNames[i], bs[i]))]
ComplexitySources ==
    { Source(File(Funcs(<<b>> \o bs))) :
        b \in FuncBodies, bs \in BoundedSeq(MoreBodies, MaxFuncs - 1) }
        \cup {Source(File(<< >>)), BadSource}

-----------------------------------------------------------------------------
(* Security scanner: rules, issues *)

\* identifiers of the sources that contain one of secretKeywords
SecretNames == {"password"}
\* identifiers of the sources that contain one of sensitiveKeywords
SensitiveNames == {"password"}

IsPkgCall(n, pkgs, funs) ==
    /\ n.type = "CallExpr"
    /\ n.kids[1].type = "SelectorExpr"
    /\ n.kids[1].kids[1].type = "Ident"
    /\ n.kids[1].kids[1].name \in pkgs
    /\ n.kids[1].name \in funs

\* isPrintFunction: no function of the sources is called by a bare Print* name
isPrintFunction(n) ==
    /\ n.kids[1].type = "SelectorExpr"
    /\ n.kids[1].kids[1].type = "Ident"
    /\ n.kids[1].kids[1].name \in {"fmt", "log"}

SecurityRules ==
    << [ID |-> "G101", Severity |-> "Critical"],
       [ID |-> "G201", Severity |-> "Critical"],
       [ID |-> "G401", Severity |-> "High"],
       [ID |-> "G104", Severity |-> "Medium"],
       [ID |-> "G501", Severity |-> "High"],
       [ID |-> "G302", Severity |-> "Medium"],
       [ID |-> "G107", Severity |-> "Medium"] >>

\* rule.Match(n, ruleCtx) of the seven security rules
SecurityMatch(id, n) ==
    CASE id = "G101" ->
            /\ n.type = "AssignStmt"
            /\ n.kids[1].type = "Ident" /\ n.kids[1].name \in SecretNames
            /\ n.kids[2].type = "BasicLit"
      [] id = "G201" ->
            /\ n.type = "BinaryExpr" /\ n.name = "+"
            /\ IsStringLit(n.kids[1]) \/ IsStringLit(n.kids[2])
            /\ ~IsStringLit(n.kids[1]) \/ ~IsStringLit(n.kids[2])
            /\ \E k \in 1..2 : n.kids[k] = SqlText
      [] id = "G401" ->
            /\ n.type = "SelectorExpr"
            /\ n.kids[1].type = "Ident" /\ n.kids[1].name = "rand"
            /\ n.name \in {"Int", "Intn", "Int31", "Int31n", "Int63", "Int63n",
                           "Float32", "Float64", "Perm", "Shuffle"}
      [] id = "G104" ->
            /\ n.type = "CallExpr"
            /\ isPrintFunction(n)
            /\ \E k \in 2..Len(n.kids) :
                  n.kids[k].type = "Ident" /\ n.kids[k].name \in SensitiveNames
      [] id = "G501" ->
            /\ n.type = "SelectorExpr"
            /\ n.kids[1].type = "Ident"
            /\ n.kids[1].name \in {"md5", "sha1", "md4", "des", "rc4"}
      [] id = "G302" ->
            /\ IsPkgCall(n, {"os", "ioutil"}, {"OpenFile", "Create", "WriteFile"})
            /\ Len(n.kids) >= 4
            /\ n.kids[4].type = "BasicLit" /\ n.kids[4].name \in {"0777", "0666"}
      [] id = "G107" ->
            /\ IsPkgCall(n, {"http"}, {"Get", "Post", "Head", "Do"})
            /\ Len(n.kids) >= 2
            /\ n.kids[2] = BasicLit("\"http://a\"")

buildSecurityIssue(rule, v, code) ==
    [ID |-> "sec-" \o ToString(v.Offset), RuleID |-> rule.ID,
     Severity |-> rule.Severity, File |-> "", Line |-> v.Line,
     Function |-> funcName(v), CodeSnippet |-> codeSnippet(code, v.Line)]

\* (mutant) a key that leaves the line out
IssueKeyRuleOnly(issue) == issue.RuleID

\* key := fmt.Sprintf("%s-%d", issue.RuleID, issue.Line)
IssueKey(issue) == issue.RuleID \o "-" \o ToString(issue.Line)

RECURSIVE DedupIssues(_, _, _, _)
DedupIssues(issues, i, seen, result) ==
    IF i > Len(issues) THEN result
    ELSE LET key == IssueKey(issues[i]) IN
         IF key \in seen THEN DedupIssues(issues, i + 1, seen, result)
         ELSE DedupIssues(issues, i + 1, seen \cup {key}, Append(result, issues[i]))

deduplicateIssues(issues) == DedupIssues(issues, 1, {}, << >>)

CountSeverity(issues, sev) ==
    Cardinality({ i \in DOMAIN issues : issues[i].Severity = sev })

calculateSecurityStatistics(issues) ==
    [TotalIssues |-> Len(issues),
     Critical |-> CountSeverity(issues, "Critical"),
     High |-> CountSeverity(issues, "High"),
     Medium |-> CountSeverity(issues, "Medium"),
     Low |-> CountSeverity(issues, "Low")]

\* the issues the rules give for one visited node, in the order of the rules
SecurityIssuesAt(v, code) ==
    LET hit == SelectSeq(SecurityRules, LAMBDA r : SecurityMatch(r.ID, v.node))
    IN  [k \in 1..Len(hit) |-> buildSecurityIssue(hit[k], v, code)]

RECURSIVE SecurityIssuesOf(_, _, _, _)
SecurityIssuesOf(visited, i, code, issues) ==
    IF i > Len(visited) THEN issues
    ELSE SecurityIssuesOf(visited, i + 1, code,
                          issues \o SecurityIssuesAt(visited[i], code))

-----------------------------------------------------------------------------
(* Bug detector: rules, issues *)

\* the sources call no function by a bare name with one of the prefixes
isErrorReturningFunction(callExpr) ==
    /\ callExpr.kids[1].type = "SelectorExpr"
    /\ callExpr.kids[1].kids[1].type = "Ident"
    /\ callExpr.kids[1].kids[1].name \in {"os", "http", "ioutil"}

isFileOpenFunction(callExpr) ==
    IsPkgCall(callExpr, {"os"}, {"Open", "Create", "OpenFile", "WriteFile"})

\* ast.Inspect(switchStmt.Body, ...): a CaseClause with List == nil anywhere
\* below the body; the walk does not go below such a clause
RECURSIVE HasDefaultBelow(_)
HasDefaultBelow(n) ==
    \/ n.type = "CaseClause" /\ n.name = "default"
    \/ \E k \in 1..Len(n.kids) : HasDefaultBelow(n.kids[k])

BugRules ==
    << [ID |-> "B101", Severity |-> "High"],
       [ID |-> "B102", Severity |-> "High"],
       [ID |-> "B103", Severity |-> "Low"],
       [ID |-> "B104", Severity |-> "Medium"] >>

\* rule.Match(n, ruleCtx) of the four bug rules
BugMatch(id, n) ==
    CASE id = "B101" ->
            /\ n.type = "AssignStmt"
            /\ n.kids[1].type = "Ident" /\ n.kids[1].name = "_"
            /\ n.kids[2].type = "CallExpr"
            /\ isErrorReturningFunction(n.kids[2])
      [] id = "B102" -> n.type = "CallExpr" /\ isFileOpenFunction(n)
      [] id = "B103" -> n.type = "SwitchStmt" /\ ~HasDefaultBelow(n.kids[2])
      [] id = "B104" -> n.type = "CallExpr" /\ n.kids[1].type = "SelectorExpr"

Confidence(id) ==
    CASE id \in {"B101", "B103"} -> "high"
      [] id = "B102" -> "medium"
      [] id = "B104" -> "low"
      [] OTHER -> "medium"

buildBugIssue(rule, v, code, filename) ==
    [ID |-> "bug-" \o ToString(v.Offset), RuleID |-> rule.ID,
     Severity |-> rule.Severity, File |-> filename, Line |-> v.Line,
     Function |-> funcName(v), CodeSnippet |-> codeSnippet(code, v.Line),
     Confidence |-> Confidence(rule.ID)]

\* len(bug.File) of the file names of the model
CodeFile == "<code>"
FileNameLen(f) ==
    CASE f = CodeFile -> 6
      [] f = "" -> 0
      [] f \in {"a.go", "b.go", "x.py"} -> 4
      [] f = "pkg/c.go" -> 8
      [] f = "README" -> 6

\* key := fmt.Sprintf("%s-%d-%d", bug.RuleID, bug.Line, len(bug.File))
BugKey(bug) ==
    bug.RuleID \o "-" \o ToString(bug.Line) \o "-" \o ToString(FileNameLen(bug.File))

RECURSIVE DedupBugs(_, _, _, _)
DedupBugs(bugs, i, seen, result) ==
    IF i > Len(bugs) THEN result
    ELSE LET key == BugKey(bugs[i]) IN
         IF key \in seen THEN DedupBugs(bugs, i + 1, seen, result)
         ELSE DedupBugs(bugs, i + 1, seen \cup {key}, Append(result, bugs[i]))

deduplicateBugIssues(bugs) == DedupBugs(bugs, 1, {}, << >>)

calculateBugStatistics(bugs) ==
    [TotalIssues |-> Len(bugs),
     High |-> CountSeverity(bugs, "High"),
     Medium |-> CountSeverity(bugs, "Medium"),
     Low |-> CountSeverity(bugs, "Low")]

BugIssuesAt(v, code, filename) ==
    LET hit == SelectSeq(BugRules, LAMBDA r : BugMatch(r.ID, v.node))
    IN  [k \in 1..Len(hit) |-> buildBugIssue(hit[k], v, code, filename)]

RECURSIVE BugIssuesOf(_, _, _, _, _)
BugIssuesOf(visited, i, code, filename, bugs) ==
    IF i > Len(visited) THEN bugs
    ELSE BugIssuesOf(visited, i + 1, code, filename,
                     bugs \o BugIssuesAt(visited[i], code, filename))

\* analyzeCode(code, filename)
analyzeCode(src, filename) ==
    LET parsed == ParseFile(src) IN
    IF parsed.err # NoErr
    THEN [bugs |-> << >>, err |-> <<"parse failed">> \o parsed.err]
    ELSE [bugs |-> BugIssuesOf(Visited(parsed.node), 1, src, filename, << >>),
          err |-> NoErr]

determineStatus(goFiles, errorFiles) ==
    IF errorFiles > 0 THEN "partial" ELSE IF goFiles > 0 THEN "success" ELSE "error"

-----------------------------------------------------------------------------
(* Bug detector: the files of a file list or of a directory *)

\* paths in the Files of an input
MaxFiles == 2

\* the paths a caller names and a walk finds
GoPaths == {"a.go", "b.go", "pkg/c.go"}
OtherPaths == {"x.py", "README"}
Paths == GoPaths \cup OtherPaths

\* DetectLanguage: the extension looked up in langMap
DetectLanguage(filename) ==
    CASE filename \in GoPaths -> "go"
      [] filename = "x.py" -> "python"
      [] OTHER -> "unknown"

\* the texts the Go files hold
FileSources ==
    { BadSource,
      OneFunc(<<OnNewLine(AssignStmt(Ident("_"), OsOpen))>>),
      OneFunc(<<OnNewLine(ExprStmt(PkgCall("f", "Close", << >>)))>>) }

\* what the disk holds at a Go path: nothing (os.Stat fails), a file that
\* os.ReadFile cannot read, or a file with its text
Missing == [exists |-> FALSE, readable |-> FALSE, src |-> BadSource]
Unreadable == [exists |-> TRUE, readable |-> FALSE, src |-> BadSource]
OnDisk(src) == [exists |-> TRUE, readable |-> TRUE, src |-> src]
FileStates == {Missing, Unreadable} \cup { OnDisk(s) : s \in FileSources }

\* the disks a call runs on; the paths that are not Go files exist
Disks == [GoPaths -> FileStates]
NoDisk == [f \in GoPaths |-> Missing]

\* os.Stat(file) returns no error
Stat(disk, file) == IF file \in GoPaths THEN disk[file].exists ELSE TRUE

\* os.ReadFile(file)
ReadFile(disk, file) ==
    IF disk[file].readable
    THEN [code |-> disk[file].src, err |-> NoErr]
    ELSE [code |-> BadSource, err |-> <<"open " \o file \o ": failed">>]

\* filepath.Walk(root, fn): the files below the directory "dir" in lexical
\* order; for a root that does not exist fn gets the error and returns nil
WalkOrder == <<"README", "a.go", "b.go", "pkg/c.go", "x.py">>
Walk(root, disk) ==
    IF root = "dir" THEN SelectSeq(WalkOrder, LAMBDA f : Stat(disk, f)) ELSE << >>

BugDetectorInput(code, files, directory) ==
    [type |-> "BugDetectorInput",
     val |-> [Code |-> code, Files |-> files, Directory |-> directory]]

\* the text "" of a BugDetectorInput that sets no Code: it does not parse
NoCode == BadSource

FileLists ==
    { l \in UNION { [1..k -> Paths] : k \in 1..MaxFiles } :
        \A i, j \in DOMAIN l : l[i] = l[j] => i = j }

BatchInputs ==
    { BugDetectorInput(NoCode, l, "") : l \in FileLists }
        \cup { BugDetectorInput(NoCode, << >>, d) : d \in {"dir", "nodir"} }
        \cup { BugDetectorInput(NoCode, <<"a.go">>, "dir") }
        \cup { BugDetectorInput(c, << >>, "") : c \in FileSources }

SkippedFile(path) ==
    [Path |-> path, Language |-> DetectLanguage(path), Status |-> "skipped",
     Reason |-> <<"only Go is supported">>]

SkippedFiles(paths) == [k \in 1..Len(paths) |-> SkippedFile(paths[k])]

\* collectFiles(input): the file list first, then the directory, then the code
collectFiles(input, disk) ==
    IF Len(input.Files) > 0
    THEN [goFiles |-> SelectSeq(input.Files,
                         LAMBDA f : DetectLanguage(f) = "go" /\ Stat(disk, f)),
          otherFiles |-> SkippedFiles(SelectSeq(input.Files,
                                         LAMBDA f : DetectLanguage(f) # "go")),
          err |-> NoErr]
    ELSE IF input.Directory # ""
    THEN LET found == Walk(input.Directory, disk) IN
         [goFiles |-> SelectSeq(found, LAMBDA f : DetectLanguage(f) = "go"),
          otherFiles |-> SkippedFiles(SelectSeq(found,
                             LAMBDA f : DetectLanguage(f) \notin {"go", "unknown"})),
          err |-> NoErr]
    ELSE [goFiles |-> <<CodeFile>>, otherFiles |-> << >>, err |-> NoErr]

\* buildEmptyResult(skippedCount)
buildEmptyResult(skippedCount) ==
    [Language |-> "go", Status |-> "success", TotalFiles |-> skippedCount,
     AnalyzedFiles |-> 0, SkippedFiles |-> << >>, ErrorFiles |-> << >>,
     Total |-> 0, Bugs |-> << >>,
     Statistics |-> [TotalIssues |-> 0, High |-> 0, Medium |-> 0, Low |-> 0]]

-----------------------------------------------------------------------------
(* Complexity analyzer *)

\* what the callback of calculateComplexity adds for one node
DecisionPoint(n) ==
    CASE n.type \in {"IfStmt", "ForStmt", "RangeStmt", "SwitchStmt",
                     "TypeSwitchStmt", "SelectStmt", "CommClause"} -> 1
      [] n.type = "CaseClause" -> IF n.name # "default" THEN 1 ELSE 0
      [] n.type = "BinaryExpr" -> IF n.name \in {"&&", "||"} THEN 1 ELSE 0
      [] OTHER -> 0

\* (mutant calculateComplexityAllClauses) the count that takes the default
\* clause for a decision point too
RECURSIVE CountAllClauses(_, _)
RECURSIVE CountAllClausesKids(_, _, _)
CountAllClauses(n, count) ==
    CountAllClausesKids(n.kids, 1,
        count + IF n.type = "CaseClause" THEN 1 ELSE DecisionPoint(n))
CountAllClausesKids(kids, i, count) ==
    IF i > Len(kids) THEN count
    ELSE CountAllClausesKids(kids, i + 1, CountAllClauses(kids[i], count))

\* ast.Inspect(fn, ...) with the counter
RECURSIVE CountDecisions(_, _)
RECURSIVE CountDecisionsKids(_, _, _)
CountDecisions(n, count) == CountDecisionsKids(n.kids, 1, count + DecisionPoint(n))
CountDecisionsKids(kids, i, count) ==
    IF i > Len(kids) THEN count
    ELSE CountDecisionsKids(kids, i + 1, CountDecisions(kids[i], count))

calculateComplexityAllClauses(fn) == CountAllClauses(fn, 1)

calculateComplexity(fn) == CountDecisions(fn, 1)

calculateStatistics(results) ==
    [TotalFunctions |-> Len(results),
     SimpleFunctions |->
        Cardinality({ i \in DOMAIN results : results[i].Complexity <= 10 }),
     MediumFunctions |->
        Cardinality({ i \in DOMAIN results :
                        results[i].Complexity > 10 /\ results[i].Complexity <= 20 }),
     ComplexFunctions |->
        Cardinality({ i \in DOMAIN results :
                        results[i].Complexity > 20 /\ results[i].Complexity <= 50 }),
     VeryComplexFunctions |->
        Cardinality({ i \in DOMAIN results : results[i].Complexity > 50 })]

-----------------------------------------------------------------------------
(* The analyzers' Run.  An analyzer keeps nothing between two calls, so a     *)
(* behaviour makes one call, by a caller that has made none.                  *)

NoResult == << >>
\* the zero BugDetectorInput
NoInput == [Code |-> NoCode, Files |-> << >>, Directory |-> ""]
CodeInputs(sources) == {InInt} \cup { Code(s) : s \in sources }
TypeError == <<"input type error">>

\* SecurityScanner.Run: the type assertion and parser.ParseFile
SecurityScannerParse(p) ==
    /\ pc[p] = "idle"
    /\ \E input \in CodeInputs(ScannerSources) :
       LET f == [op |-> "SecurityScanner.Run", input |-> input, node |-> File(<< >>),
                 found |-> << >>, result |-> NoResult, err |-> NoErr]
       IN  IF input.type # "string"
           THEN Return(p, [f EXCEPT !.err = TypeError])
           ELSE LET parsed == ParseFile(input.val) IN
                IF parsed.err # NoErr
                THEN Return(p, [f EXCEPT !.err = <<"parse Go code failed">> \o parsed.err])
                ELSE /\ pc' = [pc EXCEPT ![p] = "SecurityScanner.inspect"]
                     /\ call' = [call EXCEPT ![p] = [f EXCEPT !.node = parsed.node]]
    /\ UNCHANGED <<tools, configs, mu>>

\* SecurityScanner.Run: ast.Inspect with the rules, deduplicateIssues, the result
SecurityScannerInspect(p) ==
    /\ pc[p] = "SecurityScanner.inspect"
    /\ LET found == SecurityIssuesOf(Visited(call[p].node), 1, call[p].input.val, << >>)
           issues == deduplicateIssues(found)
       IN  Return(p, [call[p] EXCEPT
                 !.found = found,
                 !.result = <<[File |-> "", Total |-> Len(issues), Issues |-> issues,
                               Statistics |-> calculateSecurityStatistics(issues)]>>])
    /\ UNCHANGED <<tools, configs, mu>>

\* BugDetector.Run: the type switch and collectFiles, for a code string
BugDetectorCollect(p) ==
    /\ pc[p] = "idle"
    /\ \E input \in CodeInputs(BugSources) :
       LET f == [op |-> "BugDetector.Run", input |-> input, disk |-> NoDisk,
                 detectorInput |-> NoInput, goFiles |-> << >>,
                 otherFiles |-> << >>, next |-> 1, allBugs |-> << >>,
                 errorFiles |-> << >>, result |-> NoResult, err |-> NoErr]
       IN  IF input.type # "string"
           THEN Return(p, [f EXCEPT !.err = TypeError])
           ELSE LET detectorInput == [NoInput EXCEPT !.Code = input.val]
                    files == collectFiles(detectorInput, NoDisk)
                IN  /\ pc' = [pc EXCEPT ![p] = "BugDetector.files"]
                    /\ call' = [call EXCEPT ![p] =
                           [f EXCEPT !.detectorInput = detectorInput,
                                     !.goFiles = files.goFiles,
                                     !.otherFiles = files.otherFiles]]
    /\ UNCHANGED <<tools, configs, mu>>

\* BugDetector.Run: the type switch and collectFiles, for a BugDetectorInput
\* and the disk it finds; without Go files the empty result
BugDetectorCollectFiles(p) ==
    /\ pc[p] = "idle"
    /\ \E input \in BatchInputs, disk \in Disks :
       LET f == [op |-> "BugDetector.Run", input |-> input, disk |-> disk,
                 detectorInput |-> input.val, goFiles |-> << >>,
                 otherFiles |-> << >>, next |-> 1, allBugs |-> << >>,
                 errorFiles |-> << >>, result |-> NoResult, err |-> NoErr]
           files == collectFiles(input.val, disk)
       IN  IF Len(files.goFiles) = 0
           THEN Return(p, [f EXCEPT
                    !.otherFiles = files.otherFiles,
                    !.result = <<buildEmptyResult(Len(files.otherFiles))>>])
           ELSE /\ pc' = [pc EXCEPT ![p] = "BugDetector.files"]
                /\ call' = [call EXCEPT ![p] =
                       [f EXCEPT !.goFiles = files.goFiles,
                                 !.otherFiles = files.otherFiles]]
    /\ UNCHANGED <<tools, configs, mu>>

\* BugDetector.Run: one round of "for _, file := range goFiles"
BugDetectorAnalyzeFile(p) ==
    /\ pc[p] = "BugDetector.files"
    /\ call[p].next <= Len(call[p].goFiles)
    /\ LET file == call[p].goFiles[call[p].next]
           read == IF file = CodeFile
                   THEN [code |-> call[p].detectorInput.Code, err |-> NoErr]
                   ELSE ReadFile(call[p].disk, file)
           a == analyzeCode(read.code, file)
       IN  call' = [call EXCEPT ![p] =
              IF read.err # NoErr
              THEN [call[p] EXCEPT
                      !.next = @ + 1,
                      !.errorFiles = Append(@, [Path |-> file, Language |-> "go",
                                                Status |-> "error",
                                                Reason |-> <<"read file failed">> \o read.err])]
              ELSE IF a.err # NoErr
              THEN [call[p] EXCEPT
                      !.next = @ + 1,
                      !.errorFiles = Append(@, [Path |-> file, Language |-> "go",
                                                Status |-> "error", Reason |-> a.err])]
              ELSE [call[p] EXCEPT !.next = @ + 1, !.allBugs = @ \o a.bugs]]
    /\ UNCHANGED <<tools, configs, mu, pc>>

\* (mutant) a result whose counts are taken before deduplicateBugIssues
BugDetectorFinishCountsFound(p) ==
    /\ pc[p] = "BugDetector.files"
    /\ call[p].next > Len(call[p].goFiles)
    /\ LET f == call[p]
           bugs == deduplicateBugIssues(f.allBugs)
       IN  Return(p, [f EXCEPT !.result =
              <<[Language |-> "go",
                 Status |-> determineStatus(Len(f.goFiles), Len(f.errorFiles)),
                 TotalFiles |-> Len(f.goFiles) + Len(f.otherFiles) + Len(f.errorFiles),
                 AnalyzedFiles |-> Len(f.goFiles) - Len(f.errorFiles),
                 SkippedFiles |-> f.otherFiles, ErrorFiles |-> f.errorFiles,
                 Total |-> Len(f.allBugs), Bugs |-> bugs,
                 Statistics |-> calculateBugStatistics(f.allBugs)]>>])
    /\ UNCHANGED <<tools, configs, mu>>

\* BugDetector.Run: deduplicateBugIssues and the result
BugDetectorFinish(p) ==
    /\ pc[p] = "BugDetector.files"
    /\ call[p].next > Len(call[p].goFiles)
    /\ LET f == call[p]
           bugs == deduplicateBugIssues(f.allBugs)
       IN  Return(p, [f EXCEPT !.result =
              <<[Language |-> "go",
                 Status |-> determineStatus(Len(f.goFiles), Len(f.errorFiles)),
                 TotalFiles |-> Len(f.goFiles) + Len(f.otherFiles) + Len(f.errorFiles),
                 AnalyzedFiles |-> Len(f.goFiles) - Len(f.errorFiles),
                 SkippedFiles |-> f.otherFiles, ErrorFiles |-> f.errorFiles,
                 Total |-> Len(bugs), Bugs |-> bugs,
                 Statistics |-> calculateBugStatistics(bugs)]>>])
    /\ UNCHANGED <<tools, configs, mu>>

\* ComplexityAnalyzer.Run: the type assertion, parser.ParseFile, the functions
ComplexityParse(p) ==
    /\ pc[p] = "idle"
    /\ \E input \in CodeInputs(ComplexitySources) :
       LET f == [op |-> "ComplexityAnalyzer.Run", input |-> input, functions |-> << >>,
                 next |-> 1, functionResults |-> << >>, totalComplexity |-> 0,
                 result |-> NoResult, err |-> NoErr]
       IN  IF input.type # "string"
           THEN Return(p, [f EXCEPT !.err = TypeError])
           ELSE LET parsed == ParseFile(input.val) IN
                IF parsed.err # NoErr
                THEN Return(p, [f EXCEPT !.err = <<"parse Go code failed">> \o parsed.err])
                ELSE /\ pc' = [pc EXCEPT ![p] = "ComplexityAnalyzer.functions"]
                     /\ call' = [call EXCEPT ![p] = [f EXCEPT !.functions =
                            SelectSeq(Visited(parsed.node),
                                      LAMBDA v : v.node.type = "FuncDecl")]]
    /\ UNCHANGED <<tools, configs, mu>>

\* ComplexityAnalyzer.Run: one round of "for _, fn := range functions"
ComplexityFunction(p) ==
    /\ pc[p] = "ComplexityAnalyzer.functions"
    /\ call[p].next <= Len(call[p].functions)
    /\ LET fn == call[p].functions[call[p].next]
           complexity == calculateComplexity(fn.node)
       IN  call' = [call EXCEPT ![p] = [call[p] EXCEPT
              !.next = @ + 1,
              !.functionResults = Append(@, [Name |-> fn.node.name, Line |-> fn.Line,
                                             Complexity |-> complexity]),
              !.totalComplexity = @ + complexity]]
    /\ UNCHANGED <<tools, configs, mu, pc>>

\* ComplexityAnalyzer.Run: the result
ComplexityFinish(p) ==
    /\ pc[p] = "ComplexityAnalyzer.functions"
    /\ call[p].next > Len(call[p].functions)
    /\ LET f == call[p] IN
       Return(p, [f EXCEPT !.result =
              <<[File |-> "", Total |-> f.totalComplexity,
                 Functions |-> f.functionResults,
                 Statistics |-> calculateStatistics(f.functionResults)]>>])
    /\ UNCHANGED <<tools, configs, mu>>

AnalyzeNext ==
    \/ SecurityScannerParse(Runner)
    \/ SecurityScannerInspect(Runner)
    \/ BugDetectorCollect(Runner)
    \/ BugDetectorAnalyzeFile(Runner)
    \/ BugDetectorFinish(Runner)
    \/ ComplexityParse(Runner)
    \/ ComplexityFunction(Runner)
    \/ ComplexityFinish(Runner)

SpecAnalyze == Init /\ [][AnalyzeNext]_vars

\* the manager with the analyzers registered under their names
Analyzers == {"scanner", "detector"}
AnalyzerNames == {"security_scanner", "bug_detector"}

DispatchInputs ==
    {InNil, InEmpty, InGood, InBad, InInt,
     BugDetectorInput(NoCode, <<"a.go", "x.py">>, ""),
     BugDetectorInput(NoCode, << >>, "dir")}

DispatchOutcomes == UNION { ToolRun(t, i) : t \in Analyzers, i \in DispatchInputs }

InitDispatch ==
    /\ tools = [n \in AnalyzerNames |-> NoTool]
    /\ configs = [n \in AnalyzerNames |-> << >>]
    /\ mu = [writer |-> NoProc, readers |-> {}]
    /\ pc = [p \in Procs |-> "idle"]
    /\ call = [p \in Procs |-> Idle]

DispatchNext ==
    \/ RegisterLock(Runner)
    \/ \E t \in Analyzers, c \in ConcConfigs : RegisterBody(Runner, t, c)
    \/ RunLock(Runner)
    \/ \E n \in AnalyzerNames, i \in DispatchInputs : RunGet(Runner, n, i)
    \/ RunValidate(Runner)
    \/ RunLoop(Runner)
    \/ \E out \in DispatchOutcomes, d \in Durations : RunAttempt(Runner, out, d)

SpecDispatch == InitDispatch /\ [][DispatchNext]_vars

\* the bug detector on file lists and directories
BatchNext ==
    \/ BugDetectorCollectFiles(Runner)
    \/ BugDetectorAnalyzeFile(Runner)
    \/ BugDetectorFinish(Runner)

SpecBatch == Init /\ [][BatchNext]_vars

-----------------------------------------------------------------------------
(* Steps and states the properties speak of *)

\* the step in which p's Register returns
RegisterReturns(p) ==
    /\ pc'[p] = "done" /\ call'[p].op = "Register"
    /\ pc[p] = "Register" \/ (Ready(p) /\ call'[p] # call[p])

\* the step in which p's Get returns
GetReturns(p) == pc[p] = "Get" /\ pc'[p] = "done"

\* the step in which p's Run resolves its tool
RunResolves(p) == pc[p] = "RunGet" /\ pc'[p] # "RunGet"

IsDisabled(n) == tools[n] # NoTool /\ ~configs[n][1].Enabled

\* p's Run has returned
RunDone(p) == pc[p] = "done" /\ call[p].op = "Run"

\* the inputs BaseTool.Validate rejects for a string tool: nil, "", 123
Rejected == {InNil, InEmpty, InInt}

DeadlineErrors == {DeadlineExceeded, WrappedDeadline}

-----------------------------------------------------------------------------
(* Properties *)

\* C1: Register(tool, config) fails exactly when the tool is nil, its name is
\* empty, or the name is already registered; a failing Register leaves tools and
\* configs unchanged, a succeeding one adds exactly name -> tool, name -> config.
C1_RegisterContract ==
    [][\A p \in Procs : RegisterReturns(p) =>
         LET t == call'[p].tool
             c == call'[p].config
             fails == IF t = NoTool THEN TRUE
                      ELSE IF ToolName(t) = "" THEN TRUE
                      ELSE tools[ToolName(t)] # NoTool
         IN  IF fails
             THEN call'[p].err # NoErr /\ tools' = tools /\ configs' = configs
             ELSE /\ call'[p].err = NoErr
                  /\ tools' = [tools EXCEPT ![ToolName(t)] = t]
                  /\ configs' = [configs EXCEPT ![ToolName(t)] = <<c>>]]_vars

\* a second tool of a registered name was refused and the first tool and its
\* config are still the registered ones
C1_Witness ==
    \E p \in Procs :
        /\ pc[p] = "done" /\ call[p].op = "Register" /\ call[p].err # NoErr
        /\ call[p].tool = "mock2" /\ tools["test_tool"] = "mock"
        /\ configs["test_tool"] # <<call[p].config>>

\* C2: Get(name) returns not-found iff name is unregistered, disabled iff it is
\* registered with Enabled = false, and otherwise the registered tool with its
\* current config; after a successful Register with Enabled = true the registry
\* is one in which Get obtains the tool.
C2_GetContract ==
    [][\A p \in Procs :
         /\ GetReturns(p) =>
              LET n == call'[p].name
                  r == call'[p]
              IN  /\ r.err \in {NoErr, ErrToolNotFound, ErrToolDisabled}
                  /\ (r.err = ErrToolNotFound) <=> (tools[n] = NoTool)
                  /\ (r.err = ErrToolDisabled) <=> IsDisabled(n)
                  /\ r.err = NoErr => /\ r.retTool = tools[n]
                                      /\ <<r.retConfig>> = configs[n]
                  /\ r.err # NoErr => r.retTool = NoTool
         /\ (RegisterReturns(p) /\ call'[p].err = NoErr /\ call'[p].config.Enabled) =>
              LET n == ToolName(call'[p].tool)
              IN  /\ tools'[n] = call'[p].tool
                  /\ configs'[n] # << >>
                  /\ configs'[n][1].Enabled]_vars

\* a Get has returned an enabled tool with the config stored for it
C2_Witness ==
    \E p \in Procs :
        /\ pc[p] = "done" /\ call[p].op = "Get" /\ call[p].err = NoErr
        /\ call[p].retTool = "scanner" /\ call[p].retConfig.Enabled
        /\ configs[call[p].name] = <<call[p].retConfig>>

\* C3: a successful Disable(name) leaves name disabled; only Enable or
\* UpdateConfig on name makes it enabled again; and a Run that resolves name while
\* it is disabled returns the disabled error and a nil result, having called
\* neither the tool's Validate nor its Run.
C3_DisabledRejected ==
    [][\A p \in Procs :
         /\ (pc[p] = "Disable" /\ pc'[p] = "done" /\ call'[p].err = NoErr) =>
              ~configs'[call'[p].name][1].Enabled
         /\ \A n \in Names :
              (IsDisabled(n) /\ configs'[n][1].Enabled) =>
                  \E q \in Procs : /\ pc[q] \in {"Enable", "UpdateConfig"}
                                   /\ pc'[q] = "done" /\ call'[q].name = n
         /\ (RunResolves(p) /\ IsDisabled(call'[p].name)) =>
              /\ pc'[p] = "done"
              /\ call'[p].err = ErrToolDisabled
              /\ call'[p].retResult = NilResult
              /\ call'[p].validates = 0 /\ call'[p].attempts = 0]_vars

\* a Run was refused for a tool registered with the default config and disabled
\* since (only Disable produces a disabled default config)
C3_Witness ==
    \E p \in Procs :
        /\ RunDone(p) /\ call[p].err = ErrToolDisabled
        /\ configs[call[p].name] = <<[DefaultToolConfig EXCEPT !.Enabled = FALSE]>>
        /\ call[p].validates = 0 /\ call[p].attempts = 0

\* C4: when Validate rejects the input (nil, an empty string, a non-string), Run
\* returns a nil error and a ToolResult with Success = false and a non-empty
\* Error, and the tool's Run is not invoked.
C4_ValidationFailure ==
    \A p \in Procs :
        (call[p].op = "Run" /\ call[p].validates >= 1 /\ call[p].input \in Rejected) =>
            /\ pc[p] = "done"
            /\ call[p].err = NoErr
            /\ call[p].retResult # NilResult
            /\ ~call[p].retResult[1].Success
            /\ call[p].retResult[1].Error # ""
            /\ call[p].attempts = 0

\* an empty string was rejected by Validate and reported in the result
C4_Witness ==
    \E p \in Procs :
        /\ RunDone(p) /\ call[p].input = InEmpty /\ call[p].validates = 1
        /\ call[p].retResult # NilResult /\ ~call[p].retResult[1].Success

C6_SuccessIffToolSucceeded ==
    \A p \in Procs :
        (RunDone(p) /\ call[p].validates = 1 /\ call[p].input \notin Rejected) =>
            /\ call[p].retResult # NilResult
            /\ call[p].retResult[1].Success <=>
                   (call[p].attempts >= 1 /\ call[p].toolErr = NoErr)
            /\ (call[p].retResult[1].Error = "") <=> call[p].retResult[1].Success

\* C7: in a Run that reaches the retry loop with MaxRetries = r >= 0 the tool's Run
\* is invoked at least once and at most r+1 times; an attempt after the first
\* starts only once the previous one has returned an error that is no deadline
\* error; and when r+1 attempts have failed so, the result carries the last error.
C7_RetryLoop ==
    [][\A p \in Procs :
         LET f == call'[p]
             r == call'[p].config.MaxRetries
         IN  (f.op = "Run" /\ r >= 0) =>
               /\ f.attempts <= r + 1
               /\ (pc'[p] = "done" /\ f.validates = 1 /\ f.input \notin Rejected) =>
                     f.attempts >= 1
               /\ (call[p].op = "Run" /\ call[p].attempts >= 1
                      /\ f.attempts = call[p].attempts + 1) =>
                     /\ pc[p] = "loop"
                     /\ call[p].toolErr # NoErr
                     /\ call[p].toolErr \notin DeadlineErrors
               /\ (pc'[p] = "done" /\ f.attempts = r + 1) =>
                     /\ f.toolErr = ToolError =>
                          /\ ~f.retResult[1].Success
                          /\ f.retResult[1].Error = "tool execution error"
                     /\ f.toolErr = ParseError =>
                          /\ ~f.retResult[1].Success
                          /\ f.retResult[1].Error = "parse Go code failed: syntax error"
      ]_vars

\* with MaxRetries = 1 the tool failed twice and the result carries its error
C7_Witness ==
    \E p \in Procs :
        /\ RunDone(p) /\ call[p].config.MaxRetries = 1 /\ call[p].attempts = 2
        /\ call[p].toolErr = ToolError
        /\ call[p].retResult[1].Error = "tool execution error"

\* C8: once an attempt has returned an error that is or wraps deadline-exceeded,
\* Run makes no further attempt (it has returned), whatever retries remain, and
\* the result has Success = false and the text of ErrToolTimeout as its Error.
C8_TimeoutTerminal ==
    \A p \in Procs :
        (call[p].op = "Run" /\ pc[p] \in {"loop", "done"}
            /\ call[p].toolErr \in DeadlineErrors) =>
            /\ pc[p] = "done"
            /\ call[p].err = NoErr
            /\ call[p].retResult # NilResult
            /\ ~call[p].retResult[1].Success
            /\ call[p].retResult[1].Error = "ErrToolTimeout"

\* the first attempt returned a wrapped deadline error with a retry left, and Run
\* returned the timeout sentinel after that one attempt
C8_Witness ==
    \E p \in Procs :
        /\ RunDone(p) /\ call[p].toolErr = WrappedDeadline
        /\ call[p].config.MaxRetries = 1 /\ call[p].attempts = 1
        /\ call[p].retResult[1].Error = "ErrToolTimeout"

\* C9: with config.Timeout > 0, a Run whose tool execution outlasts the timeout
\* returns Success = false with the timeout sentinel, whatever the tool returns
\* late.
C9_LateResultDiscarded ==
    \A p \in Procs :
        (RunDone(p) /\ call[p].attempts >= 1 /\ call[p].config.Timeout > 0
            /\ call[p].elapsed > call[p].config.Timeout) =>
            /\ call[p].retResult # NilResult
            /\ ~call[p].retResult[1].Success
            /\ call[p].retResult[1].Error = "ErrToolTimeout"

\* C10: an analyzer's Run that fails with a parse error is invoked exactly once
\* for the call, whatever MaxRetries is, and the parse error is the result's Error.
C10_ParseErrorTerminal ==
    \A p \in Procs :
        (call[p].op = "Run" /\ call[p].toolErr = ParseError) =>
            /\ call[p].attempts = 1
            /\ pc[p] = "done" =>
                 /\ ~call[p].retResult[1].Success
                 /\ call[p].retResult[1].Error = "parse Go code failed: syntax error"

\* C11: when the tool's Run panics during ToolManager.Run, the call still returns
\* to its caller, with a ToolResult whose Success is false, and the caller does
\* not hold the manager's lock.
C11_PanicContained ==
    \A p \in Procs :
        (call[p].op = "Run" /\ call[p].toolErr = PanicValue) =>
            /\ pc[p] = "done"
            /\ call[p].retResult # NilResult
            /\ ~call[p].retResult[1].Success
            /\ mu.writer # p /\ p \notin mu.readers

\* the step in which p's Enable (op = "Enable") or Disable returns
FlagReturns(p, op) == pc[p] = op /\ pc'[p] = "done"

\* C12: Enable(name) / Disable(name) on a registered name store the name's config
\* with Enabled = true / false and every other field as it was, and change no
\* tool and no other name's config; on an unregistered name they return not-found
\* and change nothing (no config entry appears); a second Enable (Disable)
\* changes nothing; after an Enable the name is registered and enabled, which is
\* when Get obtains it.
C12_EnableDisableFrame ==
    [][\A p \in Procs : \A op \in {"Enable", "Disable"} :
         FlagReturns(p, op) =>
           LET n == call'[p].name IN
           /\ tools' = tools
           /\ \A m \in Names \ {n} : configs'[m] = configs[m]
           /\ IF tools[n] = NoTool
              THEN /\ call'[p].err = ErrToolNotFound
                   /\ configs' = configs /\ configs'[n] = << >>
              ELSE LET old == configs[n][1] IN
                   /\ call'[p].err = NoErr
                   /\ configs'[n] = <<[Enabled |-> (op = "Enable"),
                                       Timeout |-> old.Timeout,
                                       MaxRetries |-> old.MaxRetries,
                                       CustomConfig |-> old.CustomConfig]>>
                   /\ old.Enabled = (op = "Enable") => configs' = configs
                   /\ op = "Enable" => /\ tools'[n] # NoTool
                                       /\ configs'[n][1].Enabled]_vars

\* Disable has returned for a tool registered with the default config: the
\* stored config is the default one but for Enabled, the other tool's is kept
C12_Witness ==
    \E p \in Procs :
        /\ pc[p] = "done" /\ call[p].op = "Disable" /\ call[p].err = NoErr
        /\ call[p].name = "test_tool"
        /\ configs["test_tool"] = <<[DefaultToolConfig EXCEPT !.Enabled = FALSE]>>
        /\ tools["test_tool"] = "mock2"
        /\ configs["security_scanner"] # << >>
        /\ configs["security_scanner"][1].CustomConfig = "{k:v}"

\* p's Run has resolved its tool and has not returned
InFlight(p) == call[p].op = "Run" /\ pc[p] \in {"validate", "loop", "intool"}

\* C13: a Run that has resolved its tool keeps the tool and the config it
\* resolved whatever another caller does to the registry meanwhile: a step of
\* another caller changes nothing of it, its attempts stay within the MaxRetries
\* it resolved, and it returns a ToolResult and a nil error, never the disabled
\* error.
C13_InFlightUnaffected ==
    [][\A p \in Procs : InFlight(p) =>
         /\ call'[p].tool = call[p].tool
         /\ call'[p].config = call[p].config
         /\ call'[p].attempts <= call[p].config.MaxRetries + 1
         /\ pc'[p] \in {"validate", "loop", "intool", "done"}
         /\ pc'[p] = "done" => /\ call'[p].err = NoErr
                               /\ call'[p].retResult # NilResult
                               /\ call'[p].retResult[1].Success
                                     <=> (call'[p].toolErr = NoErr /\ call'[p].attempts >= 1)
         /\ (\E q \in Procs \ {p} : pc'[q] # pc[q]) =>
                pc'[p] = pc[p] /\ call'[p] = call[p]]_vars

\* a Run resolved with the default config has made its two attempts and returned
\* the tool's result although its tool was disabled in the meantime
C13_Witness ==
    \E p \in Procs :
        /\ RunDone(p) /\ call[p].config = DefaultToolConfig /\ call[p].attempts = 2
        /\ call[p].err = NoErr /\ call[p].retResult[1].Success
        /\ configs[call[p].name] = <<[DefaultToolConfig EXCEPT !.Enabled = FALSE]>>

-----------------------------------------------------------------------------
(* C14: the lock guards every access to the two maps *)

WriteOps == {"Register", "Enable", "Disable", "UpdateConfig"}
ReadOps == {"Get", "List", "ListWithStatus", "RunGet"}

\* who holds the lock, given where every caller stands
LockDiscipline ==
    /\ mu.writer # NoProc => mu.readers = {}
    /\ \A p \in Procs :
          /\ pc[p] \in WriteOps <=> mu.writer = p
          /\ pc[p] \in ReadOps <=> p \in mu.readers
    /\ \A p, q \in Procs :
          (p # q /\ pc[p] \in WriteOps) => pc[q] \notin (WriteOps \cup ReadOps)

\* C14: a caller reads the maps only while it holds the lock in read or write
\* mode and writes them only while it holds it in write mode; a writer excludes
\* every other reader and writer; the pair a Get returns is the tool and the
\* config of one registry state; nobody holds the lock while a tool's Validate
\* or Run executes.
C14_LockDiscipline ==
    [][/\ LockDiscipline /\ LockDiscipline'
       /\ (tools' # tools \/ configs' # configs) =>
             \E p \in Procs :
                 /\ mu.writer = p /\ mu.readers = {}
                 /\ pc[p] \in WriteOps /\ pc'[p] = "done"
                 /\ \A q \in Procs \ {p} : pc'[q] = pc[q] /\ call'[q] = call[q]
       /\ \A p \in Procs :
             /\ (pc'[p] # pc[p] /\ pc[p] \in ReadOps) =>
                    p \in mu.readers /\ mu.writer = NoProc
             /\ (GetReturns(p) /\ call'[p].err = NoErr) =>
                    /\ call'[p].retTool = tools[call'[p].name]
                    /\ <<call'[p].retConfig>> = configs[call'[p].name]
             /\ pc'[p] \in {"validate", "loop", "intool"} =>
                    mu'.writer # p /\ p \notin mu'.readers]_vars

C14_Witness ==
    \E p, q \in Procs :
        /\ pc[p] = "intool" /\ call[p].attempts = 1
        /\ pc[q] = "UpdateConfig" /\ mu.writer = q

-----------------------------------------------------------------------------
(* C15: List and ListWithStatus *)

ListReturns(p, op) == pc[p] = op /\ pc'[p] = "done"

\* C15: List returns every registered name exactly once, the disabled tools
\* included; ListWithStatus returns one entry for every registered name, with
\* the Enabled flag and the Timeout of that name's config, all of the registry
\* state at the instant of the call, whatever the other callers do.
C15_ListExact ==
    [][\A p \in Procs :
          LET keys == { n \in Names : tools[n] # NoTool } IN
          /\ ListReturns(p, "List") =>
                LET r == call'[p].retNames IN
                /\ Len(r) = Cardinality(keys)
                /\ { r[i] : i \in 1..Len(r) } = keys
          /\ ListReturns(p, "ListWithStatus") =>
                LET st == call'[p].retStatus IN
                /\ Len(st) = Cardinality(keys)
                /\ { st[i].Name : i \in 1..Len(st) } = keys
                /\ \A i \in 1..Len(st) :
                      /\ st[i].Enabled = configs[st[i].Name][1].Enabled
                      /\ st[i].Timeout = configs[st[i].Name][1].Timeout]_vars

C15_Witness ==
    \E p, q \in Procs :
        /\ p # q
        /\ pc[p] = "done" /\ call[p].op = "List" /\ Len(call[p].retNames) = 2
        /\ pc[q] = "done" /\ call[q].op = "ListWithStatus"
        /\ Len(call[q].retStatus) = 2
        /\ \E i \in 1..2 : ~call[q].retStatus[i].Enabled
                            /\ call[q].retStatus[i].Timeout = MaxTimeout
        /\ \E n \in Names : ~configs[n][1].Enabled

-----------------------------------------------------------------------------
(* C16..C20: the results of the analyzers *)

\* a call of the analyzer that has returned its result
Analyzed(p, op) == pc[p] = "done" /\ call[p].op = op /\ call[p].err = NoErr

\* the issues as the traversal produced them, and as the result reports them
FoundBy(p) ==
    IF call[p].op = "SecurityScanner.Run" THEN call[p].found ELSE call[p].allBugs
ReportedBy(p) ==
    IF call[p].op = "SecurityScanner.Run"
    THEN call[p].result[1].Issues ELSE call[p].result[1].Bugs

SamePair(a, b) == a.RuleID = b.RuleID /\ a.Line = b.Line

\* C16: the reported list of the security scanner and of the bug detector has
\* no two issues with the same (rule_id, line); for every (rule_id, line) some
\* node matched, exactly one issue is reported, the first one the traversal
\* produced; nothing else is reported.
C16_DedupFirstWins ==
    \A p \in Procs :
        (Analyzed(p, "SecurityScanner.Run") \/ Analyzed(p, "BugDetector.Run")) =>
            LET found == FoundBy(p)
                kept == ReportedBy(p)
            IN  /\ \A i, j \in DOMAIN kept : SamePair(kept[i], kept[j]) => i = j
                /\ \A i \in DOMAIN found :
                      LET first == CHOOSE k \in DOMAIN found :
                                      /\ SamePair(found[k], found[i])
                                      /\ \A m \in 1..(k - 1) : ~SamePair(found[m], found[i])
                      IN  /\ Cardinality({ k \in DOMAIN kept :
                                             SamePair(kept[k], found[i]) }) = 1
                          /\ \E k \in DOMAIN kept : kept[k] = found[first]
                /\ \A k \in DOMAIN kept : \E i \in DOMAIN found : found[i] = kept[k]

C16_Witness ==
    \E p \in Procs :
        /\ Analyzed(p, "BugDetector.Run")
        /\ Len(call[p].allBugs) = 4
        /\ Len(call[p].result[1].Bugs) = 3
        /\ \E i, j \in DOMAIN call[p].allBugs :
              /\ i < j
              /\ SamePair(call[p].allBugs[i], call[p].allBugs[j])
              /\ call[p].allBugs[i].ID # call[p].allBugs[j].ID
              /\ \E k \in DOMAIN call[p].result[1].Bugs :
                    call[p].result[1].Bugs[k] = call[p].allBugs[i]

\* the decision points among the nodes of a function
IsDecisionPoint(n) ==
    \/ n.type \in {"IfStmt", "ForStmt", "RangeStmt", "SwitchStmt", "TypeSwitchStmt",
                   "SelectStmt", "CommClause"}
    \/ n.type = "CaseClause" /\ n.name = "case"
    \/ n.type = "BinaryExpr" /\ n.name \in {"&&", "||"}

Cases(k) == [i \in 1..k |-> CaseClause(<<BasicLit("5")>>, << >>)]
BodyOf(fn) == fn.kids[2].kids

\* C17: the complexity reported for a function declaration is 1 plus the
\* number of its decision points (if, for, range, switch, non-default case
\* clause, type switch, select, select clause, && and ||, a default case clause
\* not counted): 1 without branches, 3 for one if with one &&, 5 for a switch
\* with three non-default cases.
C17_ComplexityFormula ==
    \A p \in Procs :
        Analyzed(p, "ComplexityAnalyzer.Run") =>
            LET fns == call[p].functions
                res == call[p].result[1].Functions
            IN  /\ Len(res) = Len(fns)
                /\ \A i \in DOMAIN fns :
                      LET nodes == Visited(fns[i].node)
                          body == BodyOf(fns[i].node)
                      IN  /\ res[i].Complexity =
                                1 + Cardinality({ k \in DOMAIN nodes :
                                                    IsDecisionPoint(nodes[k].node) })
                          /\ body = << >> => res[i].Complexity = 1
                          /\ body = <<OnNewLine(IfStmt(BinaryExpr(Ident("x"), "&&",
                                                                  Ident("y")), << >>))>>
                                => res[i].Complexity = 3
                          /\ body = <<OnNewLine(SwitchStmt(Ident("x"), Cases(3)))>>
                                => res[i].Complexity = 5

C17_Witness ==
    \E p \in Procs :
        /\ Analyzed(p, "ComplexityAnalyzer.Run")
        /\ Len(call[p].functions) = 2
        /\ BodyOf(call[p].functions[1].node) =
              <<OnNewLine(SwitchStmt(Ident("x"), Cases(3)))>>
        /\ call[p].result[1].Functions[1].Complexity = 5
        /\ BodyOf(call[p].functions[2].node) =
              <<OnNewLine(IfStmt(BinaryExpr(Ident("x"), "&&", Ident("y")), << >>))>>
        /\ call[p].result[1].Functions[2].Complexity = 3

RECURSIVE SumComplexity(_, _)
SumComplexity(res, i) ==
    IF i > Len(res) THEN 0 ELSE res[i].Complexity + SumComplexity(res, i + 1)

ListTotals(p) ==
    /\ Analyzed(p, "SecurityScanner.Run") =>
          LET r == call[p].result[1] IN
          r.Total = Len(r.Issues) /\ r.Statistics.TotalIssues = Len(r.Issues)
    /\ Analyzed(p, "BugDetector.Run") =>
          LET r == call[p].result[1] IN
          r.Total = Len(r.Bugs) /\ r.Statistics.TotalIssues = Len(r.Bugs)
    /\ Analyzed(p, "ComplexityAnalyzer.Run") =>
          LET r == call[p].result[1] IN
          r.Statistics.TotalFunctions = Len(r.Functions)

\* C18 (as the code has it): total and statistics.total_issues of the security
\* scanner and of the bug detector are the number of reported issues;
\* statistics.total_functions of the complexity analyzer is the number of
\* analyzed functions, and its total is the sum of their complexities.
C18_TotalsAmended ==
    \A p \in Procs :
        /\ ListTotals(p)
        /\ Analyzed(p, "ComplexityAnalyzer.Run") =>
              LET r == call[p].result[1] IN
              /\ r.Total = SumComplexity(r.Functions, 1)
              /\ r.Total >= Len(r.Functions)

\* C18 (as stated): in every analyzer result total is the number of entries of
\* the list, the number of analyzed functions for the complexity analyzer.
C18_TotalIsListLength ==
    \A p \in Procs :
        /\ ListTotals(p)
        /\ Analyzed(p, "ComplexityAnalyzer.Run") =>
              call[p].result[1].Total = Len(call[p].result[1].Functions)

C18_Witness ==
    \E p \in Procs :
        /\ Analyzed(p, "ComplexityAnalyzer.Run")
        /\ Len(call[p].result[1].Functions) = 2
        /\ call[p].result[1].Statistics.TotalFunctions = 2
        /\ call[p].result[1].Functions[1].Complexity = 4
        /\ call[p].result[1].Functions[2].Complexity = 1
        /\ call[p].result[1].Total = 5

\* C19: the issues of one result have pairwise distinct ids.
C19_IdsDistinct ==
    \A p \in Procs :
        (Analyzed(p, "SecurityScanner.Run") \/ Analyzed(p, "BugDetector.Run")) =>
            LET kept == ReportedBy(p) IN
            \A i, j \in DOMAIN kept : kept[i].ID = kept[j].ID => i = j

HasOwnDefault(switch) ==
    \E k \in DOMAIN switch.kids[2].kids :
        /\ switch.kids[2].kids[k].type = "CaseClause"
        /\ switch.kids[2].kids[k].name = "default"

\* C20: for every switch statement of the source the bug detector reports
\* exactly one B103 issue if none of the switch's own case clauses is a default
\* clause, and none if one is, whatever the case bodies contain.
C20_MissingDefaultPerSwitch ==
    \A p \in Procs :
        Analyzed(p, "BugDetector.Run") =>
            LET nodes == Visited(call[p].input.val.file)
                bugs == call[p].result[1].Bugs
            IN  \A v \in DOMAIN nodes :
                    nodes[v].node.type = "SwitchStmt" =>
                        Cardinality({ k \in DOMAIN bugs :
                                        /\ bugs[k].RuleID = "B103"
                                        /\ bugs[k].ID = "bug-" \o ToString(nodes[v].Offset) })
                            = IF HasOwnDefault(nodes[v].node) THEN 0 ELSE 1

-----------------------------------------------------------------------------
(* C21..C29: the bug detector on several files *)

\* a call of BugDetector.Run that has returned
Detected(p) == pc[p] = "done" /\ call[p].op = "BugDetector.Run"

\* the call was given a file list or a directory
InBatchMode(p) ==
    /\ call[p].input.type = "BugDetectorInput"
    /\ Len(call[p].input.val.Files) > 0 \/ call[p].input.val.Directory # ""

InListMode(p) ==
    call[p].input.type = "BugDetectorInput" /\ Len(call[p].input.val.Files) > 0

\* the Go files of the batch: those of the list, or those the walk finds
GoFilesGiven(p) ==
    IF InListMode(p)
    THEN { f \in GoPaths : \E i \in DOMAIN call[p].input.val.Files :
                              call[p].input.val.Files[i] = f }
    ELSE { f \in GoPaths : \E i \in DOMAIN Walk(call[p].input.val.Directory, call[p].disk) :
                              Walk(call[p].input.val.Directory, call[p].disk)[i] = f }

\* the file cannot be read or its text does not parse
Fails(disk, f) == ~disk[f].readable \/ ~disk[f].src.valid

EntriesFor(list, f) == { k \in DOMAIN list : list[k].Path = f }

\* C21: in file-list and directory mode a Go file that cannot be read or parsed
\* never makes Run return an error; it is exactly once in error_files and has no
\* issue in bugs, total and statistics; every other Go file of the batch is
\* analyzed and each issue found in it is in the result.
C21_FailingFileIsolated ==
    \A p \in Procs :
        (Detected(p) /\ InBatchMode(p)) =>
            /\ call[p].err = NoErr
            /\ call[p].result # NoResult
            /\ LET r == call[p].result[1] IN
               /\ r.Total = Len(r.Bugs)
               /\ r.Statistics.TotalIssues = Len(r.Bugs)
               /\ \A f \in GoFilesGiven(p) :
                     IF Fails(call[p].disk, f)
                     THEN /\ Cardinality(EntriesFor(r.ErrorFiles, f)) = 1
                          /\ \A k \in DOMAIN r.Bugs : r.Bugs[k].File # f
                     ELSE /\ EntriesFor(r.ErrorFiles, f) = {}
                          /\ LET found == deduplicateBugIssues(
                                             analyzeCode(call[p].disk[f].src, f).bugs)
                             IN  \A i \in DOMAIN found :
                                    \E k \in DOMAIN r.Bugs : r.Bugs[k] = found[i]

\* C22: total_files = analyzed_files + len(skipped_files) + len(error_files) in
\* every result of the bug detector.
C22_TotalFilesAddsUp ==
    \A p \in Procs :
        (Detected(p) /\ call[p].err = NoErr) =>
            LET r == call[p].result[1] IN
            r.TotalFiles = r.AnalyzedFiles + Len(r.SkippedFiles) + Len(r.ErrorFiles)

\* C27: in file-list and directory mode every issue found in an analyzed file
\* is reported under that file's path: issues of the same rule and line in
\* different files are all in the result.
C27_DedupKeepsFilesApart ==
    \A p \in Procs :
        (Detected(p) /\ InBatchMode(p) /\ call[p].err = NoErr) =>
            LET r == call[p].result[1] IN
            \A i \in DOMAIN call[p].allBugs :
                \E k \in DOMAIN r.Bugs :
                    /\ r.Bugs[k].File = call[p].allBugs[i].File
                    /\ SamePair(r.Bugs[k], call[p].allBugs[i])

\* C28: in file-list mode every path of the list is in exactly one of: the
\* analyzed files, skipped_files, error_files; analyzed_files counts the first.
C28_EveryPathAccounted ==
    \A p \in Procs :
        (Detected(p) /\ InListMode(p) /\ call[p].err = NoErr) =>
            LET r == call[p].result[1]
                files == call[p].input.val.Files
                analyzed == { f \in Paths :
                                /\ \E i \in DOMAIN call[p].goFiles : call[p].goFiles[i] = f
                                /\ EntriesFor(r.ErrorFiles, f) = {} }
            IN  /\ r.AnalyzedFiles = Cardinality(analyzed)
                /\ \A i \in DOMAIN files :
                      Cardinality(EntriesFor(r.SkippedFiles, files[i]))
                        + Cardinality(EntriesFor(r.ErrorFiles, files[i]))
                        + (IF files[i] \in analyzed THEN 1 ELSE 0) = 1

-----------------------------------------------------------------------------
(* C23, C24: the function and the code snippet of an issue *)

\* the name of the function declaration whose text holds the position of v
EnclosingFunc(nodes, v) ==
    LET fns == { i \in DOMAIN nodes :
                   /\ nodes[i].node.type = "FuncDecl"
                   /\ nodes[i].Offset <= v.Offset
                   /\ v.Offset < nodes[i].Offset + Span(nodes[i].node)
                                   - (IF nodes[i].node.nl THEN 1 ELSE 0) }
    IN  IF fns = {} THEN "" ELSE nodes[CHOOSE i \in fns : TRUE].node.name

\* the issue is the one a rule produced for the visited node v
IssueOf(op, issue, v) ==
    IF op = "SecurityScanner.Run"
    THEN issue.ID = "sec-" \o ToString(v.Offset) /\ SecurityMatch(issue.RuleID, v.node)
    ELSE issue.ID = "bug-" \o ToString(v.Offset) /\ BugMatch(issue.RuleID, v.node)

\* C23: the function field of every issue of the security scanner and of the
\* bug detector is the name of the function declaration that encloses the
\* matched node, and empty only for a node outside every function declaration.
C23_FunctionIsEnclosing ==
    \A p \in Procs :
        (Analyzed(p, "SecurityScanner.Run") \/ Analyzed(p, "BugDetector.Run")) =>
            LET nodes == Visited(call[p].input.val.file)
                kept == ReportedBy(p)
            IN  \A k \in DOMAIN kept : \A i \in DOMAIN nodes :
                    IssueOf(call[p].op, kept[k], nodes[i]) =>
                        kept[k].Function = EnclosingFunc(nodes, nodes[i])

\* C24 (as the code has it): the code snippet of an issue is the trimmed source
\* line when that has at most 100 bytes, and otherwise its first 100 bytes
\* followed by "...": at most 103 bytes.
C24_SnippetAmended ==
    \A p \in Procs :
        (Analyzed(p, "SecurityScanner.Run") \/ Analyzed(p, "BugDetector.Run")) =>
            LET kept == ReportedBy(p)
                width == call[p].input.val.width
            IN  \A k \in DOMAIN kept :
                    /\ Len(kept[k].CodeSnippet) <= SnippetCap + Len(Ellipsis)
                    /\ width <= SnippetCap =>
                          kept[k].CodeSnippet = [i \in 1..width |-> "x"]
                    /\ width > SnippetCap =>
                          kept[k].CodeSnippet = [i \in 1..SnippetCap |-> "x"] \o Ellipsis

\* C24 (as stated): the code snippet of every issue has at most 100 characters,
\* however long the source line is.
C24_SnippetCapped ==
    \A p \in Procs :
        (Analyzed(p, "SecurityScanner.Run") \/ Analyzed(p, "BugDetector.Run")) =>
            \A k \in DOMAIN ReportedBy(p) :
                Len(ReportedBy(p)[k].CodeSnippet) <= SnippetCap

\* an issue on a line of 120 bytes has a snippet of 103, and one on a line of
\* exactly 100 bytes has the line
C24_Witness ==
    \E p \in Procs :
        /\ Analyzed(p, "BugDetector.Run")
        /\ call[p].input.val.width = SnippetCap + 20
        /\ Len(call[p].result[1].Bugs) = 3
        /\ \A k \in 1..3 :
              /\ Len(call[p].result[1].Bugs[k].CodeSnippet) = SnippetCap + 3
              /\ SubSeq(call[p].result[1].Bugs[k].CodeSnippet, SnippetCap,
                        SnippetCap + 3) = <<"x", ".", ".", ".">>

-----------------------------------------------------------------------------
(* C25: the two maps of the registry *)

\* the names with a tool are the names with a config, one config each
SameKeys(ts, cs) ==
    \A n \in Names : /\ (ts[n] # NoTool) <=> (cs[n] # << >>)
                     /\ Len(cs[n]) <= 1

\* C25: whatever Register, Enable, Disable and UpdateConfig calls are made and
\* however they interleave, the names that have a tool are the names that have
\* a config, with one config per name; no step removes a registered name; and
\* the tool of a registered name never changes.
C25_RegistryKeys ==
    [][/\ SameKeys(tools, configs)
       /\ SameKeys(tools', configs')
       /\ \A n \in Names :
             tools[n] # NoTool => tools'[n] = tools[n] /\ configs'[n] # << >>]_vars

\* a second Register of a registered name was refused, the other caller's
\* UpdateConfig of an unregistered name too, and the registered tool has been
\* reconfigured in between
C25_Witness ==
    \E p, q \in Procs :
        /\ p # q
        /\ pc[p] = "done" /\ call[p].op = "Register" /\ call[p].err # NoErr
        /\ call[p].tool = "mock" /\ tools["test_tool"] = "mock"
        /\ configs["test_tool"] = <<[DefaultToolConfig EXCEPT !.Enabled = FALSE]>>
        /\ pc[q] = "done" /\ call[q].op = "UpdateConfig"
        /\ call[q].name = "security_scanner" /\ call[q].err = ErrToolNotFound
        /\ tools["security_scanner"] = NoTool /\ configs["security_scanner"] = << >>

-----------------------------------------------------------------------------
(* C26: attempts and the deadline *)

\* the step in which p's Run starts an attempt of the tool's Run
AttemptStarts(p) == pc[p] = "loop" /\ pc'[p] = "intool"

\* C26: within one Run with config.Timeout > 0 no attempt of the tool's Run is
\* started once more than Timeout ms have passed since the start: after an
\* attempt that returns a non-deadline error past the deadline there is no
\* further attempt.
C26_NoAttemptAfterDeadline ==
    [][\A p \in Procs :
         (AttemptStarts(p) /\ call[p].config.Timeout > 0) =>
             call[p].elapsed <= call[p].config.Timeout]_vars

-----------------------------------------------------------------------------
(* C30: what Validate lets through to Run *)

\* the type switch of the tool's Run takes the input
RunAccepts(t, input) == \E out \in ToolRun(t, input) : out.err # TypeError

\* C30: an input of a shape the Run of a registered analyzer accepts (for the
\* bug detector a non-empty string or a BugDetectorInput naming files or a
\* directory) passes the analyzer's Validate: a ToolManager.Run with it calls
\* the analyzer's Run and does not return a validation failure.
C30_ValidateAdmitsRunInputs ==
    \A p \in Procs :
        (RunDone(p) /\ call[p].validates = 1
            /\ call[p].tool \in Analyzers
            /\ call[p].input \notin {InNil, InEmpty}
            /\ RunAccepts(call[p].tool, call[p].input)) =>
                /\ call[p].attempts >= 1
                /\ call[p].retResult # NilResult
                /\ call[p].retResult[1].Error # "input validation failed: "
                      \o ErrorText(Validate(call[p].tool, call[p].input))

====
